---------------------------- MODULE Spec2Model ----------------------------
(***************************************************************************)
(* Dogbone add-in: the corner resolver, the placement computation and the  *)
(* top-face locator, modelled from src/lib/utils/dbutils.py and            *)
(* src/Dogbone.py.                                                         *)
(*                                                                         *)
(* Three specifications share the module's variables:                      *)
(*   SpecCorner  getCornerEdgesAtFace over small B-rep topologies          *)
(*   SpecPlace   onExecute / create*Dogbones for one selected edge         *)
(*   SpecTop     getTopFace over bodies of faces                           *)
(* A specification leaves the variables of the others at their idle value. *)
(***************************************************************************)
EXTENDS Integers, Sequences, FiniteSets, TLC

VARIABLES
    cBody,      \* SpecCorner: the body's edges (start/end vertex per entity token)
    cFace,      \* SpecCorner: the face argument, as the set of its edges' tokens
    cEdge,      \* SpecCorner: the edge argument (a token of cBody), 0 before a call
    cResult,    \* SpecCorner: outcome of the last getCornerEdgesAtFace call
    pBody,      \* SpecPlace: the pocket the selected face and edge belong to
    pSel,       \* SpecPlace: the selected dogbone edge (a token of the pocket)
    param,      \* SpecPlace: the dialog's values (DbParams, self.longSide)
    pOut,       \* SpecPlace: what onExecute handed to hole creation
    tFaces,     \* SpecTop: body.faces, in the body's iteration order
    tSel,       \* SpecTop: the face getTopFace is called with (index), 0 before a call
    tOut,       \* SpecTop: outcome of the last getTopFace call
    tMove,      \* SpecTop, SpecMove: the last getTranslateVectorBetweenFaces call
    aEdge,      \* SpecAngle: the edge getAngleBetweenFaces is called with
    aOut,       \* SpecAngle: outcome of the getAngleBetweenFaces call
    batch,      \* SpecBatch: a routine working through the selected edges of cFace
    picks,      \* SpecSelect: the face selection and the command's bookkeeping of it
    run,        \* SpecRun: a routine working through selectedOccurrences
    sk          \* SpecSketch: createStaticDogbones working through one face

vars == <<cBody, cFace, cEdge, cResult, pBody, pSel, param, pOut, tFaces, tSel, tOut, tMove,
          aEdge, aOut, batch, picks, run, sk>>

Idle == [status |-> "idle"]

(***************************************************************************)
(* Bounds of the topology the corner resolver is run on.                   *)
(***************************************************************************)
MaxEdges == 3
NumVertices == MaxEdges + 1

(***************************************************************************)
(* B-rep topology as the kernel exposes it to dbutils.py.                  *)
(***************************************************************************)
Vertices == 1 .. NumVertices

\* An edge joins two different vertices; its stored orientation is arbitrary.
VertexPairs == {p \in Vertices \X Vertices : p[1] # p[2]}

PairRank(p) == (p[1] - 1) * NumVertices + p[2]

\* Edge lists of n edges; the entity token of an edge is its index.  Tokens
\* carry no meaning, so lists are taken up to renaming (sorted by vertex pair).
EdgeLists(n) ==
    {f \in [1 .. n -> VertexPairs] :
        \A i \in 1 .. n - 1 : PairRank(f[i]) <= PairRank(f[i + 1])}

startVertex(body, e) == body[e][1]
endVertex(body, e) == body[e][2]

\* BRepVertex.edges: every edge of the body that ends at the vertex.
VertexEdges(body, v) ==
    {e \in DOMAIN body : startVertex(body, e) = v \/ endVertex(body, e) = v}

\* BRepFace.vertices: the end points of the face's boundary edges.
FaceVertices(body, face) ==
    {startVertex(body, e) : e \in face} \cup {endVertex(body, e) : e \in face}

\* A face boundary is made of closed loops: every vertex of the face has at
\* least two boundary edges of that face.
ClosedFace(body, face) ==
    /\ face # {}
    /\ \A v \in FaceVertices(body, face) :
          Cardinality(VertexEdges(body, v) \cap face) >= 2

\* hash(entity.entityToken): the dictionary key of an edge.  Distinct tokens
\* of one body are taken to hash to distinct keys.
calcId(token) == 31 * token + 7

(***************************************************************************)
(* dbutils.getCornerEdgesAtFace                                            *)
(***************************************************************************)
\* lines 104-106: the end of the edge that is a vertex of the face, else endVertex
CornerStartVertex(body, face, edge) ==
    IF startVertex(body, edge) \in FaceVertices(body, face)
    THEN startVertex(body, edge)
    ELSE endVertex(body, edge)

\* lines 108-110: keys common to the vertex's edges and the face's edges
CommonEdges(body, face, edge) ==
    LET vertexEdges == {calcId(e) : e \in VertexEdges(body, CornerStartVertex(body, face, edge))}
        faceEdges == {calcId(e) : e \in face}
    IN  vertexEdges \cap faceEdges

\* line 111, as a changed comparison would have it
CornerCountRejected_AtMostTwo(commonEdges) == Cardinality(commonEdges) > 2

\* line 111: if len(commonEdges) != 2: raise
CornerCountRejected(commonEdges) == Cardinality(commonEdges) # 2

\* faceEdges[token]: the edge stored under a key
EdgeOfKey(face, key) == CHOOSE e \in face : calcId(e) = key

\* Every order in which a set can be iterated
Orderings(S) ==
    {s \in [1 .. Cardinality(S) -> S] : \A i, j \in DOMAIN s : i # j => s[i] # s[j]}

\* The outcomes of getCornerEdgesAtFace(face, edge): NameError, or the common
\* edges in the (unspecified) iteration order of a set of hashes.
GetCornerEdgesAtFace(body, face, edge) ==
    LET commonEdges == CommonEdges(body, face, edge)
    IN  IF CornerCountRejected(commonEdges)
        THEN {[status |-> "NameError", edges |-> <<>>]}
        ELSE {[status |-> "ok", edges |-> [i \in DOMAIN s |-> EdgeOfKey(face, s[i])]] :
                 s \in Orderings(commonEdges)}

(***************************************************************************)
(* SpecCorner                                                              *)
(***************************************************************************)
InitCorner ==
    /\ pBody = Idle /\ pSel = 0 /\ param = Idle /\ pOut = Idle
    /\ tFaces = <<>> /\ tSel = 0 /\ tOut = Idle /\ tMove = Idle
    /\ aEdge = Idle /\ aOut = Idle /\ batch = Idle /\ picks = Idle /\ run = Idle /\ sk = Idle
    /\ \E n \in 1 .. MaxEdges : cBody \in EdgeLists(n)
    /\ cFace \in {f \in SUBSET (DOMAIN cBody) : ClosedFace(cBody, f)}
    /\ cEdge = 0
    /\ cResult = Idle

\* One call getCornerEdgesAtFace(cFace, edge) for an edge of the body
CallGetCornerEdgesAtFace ==
    \E edge \in DOMAIN cBody :
        /\ cEdge' = edge
        /\ cResult' \in GetCornerEdgesAtFace(cBody, cFace, edge)
        /\ UNCHANGED <<cBody, cFace, pBody, pSel, param, pOut, tFaces, tSel, tOut, tMove, aEdge, aOut, batch, picks, run, sk>>

NextCorner == CallGetCornerEdgesAtFace

SpecCorner == InitCorner /\ [][NextCorner]_vars

(***************************************************************************)
(* Exact arithmetic for the float computations of Dogbone.py.              *)
(* A rational is [n, d] in lowest terms with d > 0.  A surd is             *)
(* [sgn, n, d], the real number sgn * sqrt(n / d): enough for products and *)
(* quotients of rationals and sqrt(2), and for vector lengths.             *)
(***************************************************************************)
Abs(x) == IF x < 0 THEN -x ELSE x

Sign(x) == IF x < 0 THEN -1 ELSE IF x = 0 THEN 0 ELSE 1

RECURSIVE Gcd(_, _)
Gcd(a, b) == IF b = 0 THEN a ELSE Gcd(b, a % b)

Rat(n, d) ==
    LET g == Gcd(Abs(n), Abs(d))
    IN  [n |-> (Sign(d) * n) \div g, d |-> Abs(d) \div g]

RatMul(a, b) == Rat(a.n * b.n, a.d * b.d)

SurdZero == [sgn |-> 0, n |-> 0, d |-> 1]

Surd(sgn, n, d) ==
    IF sgn = 0 \/ n = 0 THEN SurdZero
    ELSE LET r == Rat(n, d) IN [sgn |-> sgn, n |-> r.n, d |-> r.d]

SurdOfRat(r) == Surd(Sign(r.n), r.n * r.n, r.d * r.d)

SurdOfInt(i) == Surd(Sign(i), i * i, 1)

SurdMul(a, b) == Surd(a.sgn * b.sgn, a.n * b.n, a.d * b.d)

\* a / b, b not zero
SurdDiv(a, b) == Surd(a.sgn * b.sgn, a.n * b.d, a.d * b.n)

SurdAbs(a) == Surd(Abs(a.sgn), a.n, a.d)

\* math.sqrt(2)
Sqrt2 == Surd(1, 2, 1)

IsSquare(n) == \E r \in 0 .. n : r * r = n

ISqrt(n) == CHOOSE r \in 0 .. n : r * r = n

(***************************************************************************)
(* adsk.core.Vector3D and Point3D.                                         *)
(* A vector is c * d: d an integer direction with coprime components, c a  *)
(* non-negative surd.  A point is p + off: p an integer point and off the  *)
(* part of its position that is not an integer vector.                     *)
(***************************************************************************)
Origin == <<0, 0, 0>>

Dot(a, b) == a[1] * b[1] + a[2] * b[2] + a[3] * b[3]

IntAdd(a, b) == <<a[1] + b[1], a[2] + b[2], a[3] + b[3]>>

IntSub(a, b) == <<a[1] - b[1], a[2] - b[2], a[3] - b[3]>>

IntScale(k, a) == <<k * a[1], k * a[2], k * a[3]>>

ZeroVec == [d |-> Origin, c |-> SurdZero]

MkVec(d, c) ==
    IF d = Origin \/ c.sgn = 0 THEN ZeroVec
    ELSE LET g == Gcd(Gcd(Abs(d[1]), Abs(d[2])), Abs(d[3]))
         IN  [d |-> <<(c.sgn * d[1]) \div g, (c.sgn * d[2]) \div g, (c.sgn * d[3]) \div g>>,
              c |-> SurdMul(SurdAbs(c), SurdOfInt(g))]

IntVec(d) == MkVec(d, SurdOfInt(1))

\* Point3D.vectorTo between two integer points
vectorTo(from, to) == IntVec(IntSub(to, from))

\* Vector3D.length
VecLength(v) == SurdMul(v.c, Surd(Sign(Dot(v.d, v.d)), Dot(v.d, v.d), 1))

\* Vector3D.add of two vectors with rational coefficients (face normals)
VecAdd(v, w) ==
    LET pv == ISqrt(v.c.n)
        qv == ISqrt(v.c.d)
        pw == ISqrt(w.c.n)
        qw == ISqrt(w.c.d)
    IN  MkVec(IntAdd(IntScale(pv * qw, v.d), IntScale(pw * qv, w.d)),
              Surd(1, 1, (qv * qw) * (qv * qw)))

\* Vector3D.normalize: unit length, same direction (a zero vector is left as is)
normalize(v) == IF v = ZeroVec THEN ZeroVec ELSE MkVec(v.d, Surd(1, 1, Dot(v.d, v.d)))

\* Vector3D.scaleBy
scaleBy(v, s) == MkVec(v.d, SurdMul(v.c, s))

IsIntVec(v) == v.c.d = 1 /\ IsSquare(v.c.n)

PointAt(p) == [p |-> p, off |-> ZeroVec]

\* Point3D.translateBy (one non-integer displacement per point)
translateBy(pt, v) ==
    IF IsIntVec(v) THEN [pt EXCEPT !.p = IntAdd(pt.p, IntScale(ISqrt(v.c.n), v.d))]
    ELSE [pt EXCEPT !.off = v]

(***************************************************************************)
(* The solid around a selected face: a pocket cut straight down from the   *)
(* face.  The pocket's outline is a polygon (counter-clockwise, integer    *)
(* corners, integer side lengths); its walls are planar and their normals  *)
(* point into the pocket.  Vertex i is corner i of the outline on the      *)
(* selected face, vertex n+i the corner below it.  Edge i is side i of the *)
(* outline on the face, edge n+i the side below it, edge 2n+i the edge     *)
(* dropping from vertex i.                                                 *)
(***************************************************************************)
MaxDim == 2
MaxDepth == 1

RectPoly(a, b) == <<<<0, 0>>, <<a, 0>>, <<a, b>>, <<0, b>>>>

\* a 3-4-5 outline, for corners that are not right angles
TriPoly == <<<<0, 0>>, <<4, 0>>, <<0, 3>>>>

Polygons == {RectPoly(a, b) : a, b \in 1 .. MaxDim} \cup {TriPoly}

NSides(b) == Len(b.poly)

NextSide(b, i) == (i % NSides(b)) + 1

PrevSide(b, i) == ((i + NSides(b) - 2) % NSides(b)) + 1

\* BRepVertex.geometry
VertexPoint(b, v) ==
    IF v <= NSides(b)
    THEN <<b.poly[v][1], b.poly[v][2], b.depth>>
    ELSE <<b.poly[v - NSides(b)][1], b.poly[v - NSides(b)][2], 0>>

BaseEdge(b, e) ==
    LET n == NSides(b)
    IN  IF e <= n THEN <<e, NextSide(b, e)>>
        ELSE IF e <= 2 * n THEN <<e, n + NextSide(b, e - n)>>
        ELSE <<e - 2 * n, e - n>>

\* The edges with their stored orientation: those in b.flip run backwards.
PocketEdges(b) ==
    [e \in 1 .. 3 * NSides(b) |->
        IF e \in b.flip THEN <<BaseEdge(b, e)[2], BaseEdge(b, e)[1]>> ELSE BaseEdge(b, e)]

\* The boundary of the selected face where the pocket meets it
TopFace(b) == 1 .. NSides(b)

\* The edges that drop from the selected face into the pocket
DropEdges(b) == (2 * NSides(b) + 1) .. (3 * NSides(b))

\* getFaceNormal of the wall through side i: unit, pointing into the pocket
WallNormal(b, i) ==
    LET dx == b.poly[NextSide(b, i)][1] - b.poly[i][1]
        dy == b.poly[NextSide(b, i)][2] - b.poly[i][2]
    IN  MkVec(<<-dy, dx, 0>>, Surd(1, 1, dx * dx + dy * dy))

\* edge.faces of a dropping edge: the two walls that meet in it
EdgeFaceNormals(b, e) ==
    <<WallNormal(b, PrevSide(b, e - 2 * NSides(b))), WallNormal(b, e - 2 * NSides(b))>>

EdgeStartPoint(b, e) == VertexPoint(b, startVertex(PocketEdges(b), e))

EdgeEndPoint(b, e) == VertexPoint(b, endVertex(PocketEdges(b), e))

\* edge.length
EdgeLength(b, e) == VecLength(vectorTo(EdgeStartPoint(b, e), EdgeEndPoint(b, e)))

\* a > b for two lengths
LongerThan(a, b) == a.n * b.d > b.n * a.d

(***************************************************************************)
(* dbutils helpers used by the two dogbone routines                        *)
(***************************************************************************)
\* correctedEdgeVector with the reversal left out
correctedEdgeVector_StartToEnd(startPoint, endPoint, commonPoint) ==
    vectorTo(startPoint, endPoint)

\* correctedEdgeVector(edge, commonPoint), the edge given by its end points
correctedEdgeVector(startPoint, endPoint, commonPoint) ==
    IF startPoint = commonPoint
    THEN vectorTo(startPoint, endPoint)
    ELSE vectorTo(endPoint, startPoint)

\* getVertexAtFace(face, edge)
getVertexAtFace(body, face, edge) ==
    IF startVertex(body, edge) \in FaceVertices(body, face)
    THEN startVertex(body, edge)
    ELSE endVertex(body, edge)

\* isEdgeAssociatedWithFace(face, edge)
isEdgeAssociatedWithFace(body, face, edge) ==
    \/ startVertex(body, edge) \in FaceVertices(body, face)
    \/ endVertex(body, edge) \in FaceVertices(body, face)

(***************************************************************************)
(* Dogbone.py: onExecute, createParametricDogbones, createStaticDogbones,  *)
(* for one selected face with one selected edge.                           *)
(***************************************************************************)
MaxToolDia == 2

Normal == "Normal Dogbone"
Minimal == "Minimal Dogbone"
Mortise == "Mortise Dogbone"

\* onValidate: the tool diameter must be positive (a face is selected here)
InputsValid(prm) == ~(prm.toolDia <= 0)

\* (toolDia + toolDiaOffset) / 2, and the user parameter dbRadius
Radius(prm) == Rat(prm.toolDia + prm.toolDiaOffset, 2)

\* 1 + minimalPercent/100
MinimalFactor(prm) == Rat(100 + prm.minimalPercent, 100)

\* centreDistance of both routines
CentreDistance(prm) ==
    RatMul(Radius(prm), IF prm.dbType = Minimal THEN MinimalFactor(prm) ELSE Rat(1, 1))

\* the offset with the division by sqrt(2) missing for the Minimal style
HoleOffset_MinimalUndivided(prm) ==
    IF prm.dbType = Minimal
    THEN SurdOfRat(RatMul(Radius(prm), MinimalFactor(prm)))
    ELSE IF prm.dbType = Mortise
         THEN SurdOfRat(Radius(prm))
         ELSE SurdDiv(SurdOfRat(Radius(prm)), Sqrt2)

\* self.offset of the static branch and the user parameter dbHoleOffset
HoleOffset(prm) ==
    IF prm.dbType = Minimal
    THEN SurdMul(SurdDiv(SurdOfRat(Radius(prm)), Sqrt2), SurdOfRat(MinimalFactor(prm)))
    ELSE IF prm.dbType = Mortise
         THEN SurdOfRat(Radius(prm))
         ELSE SurdDiv(SurdOfRat(Radius(prm)), Sqrt2)

\* the comparison of the two lengths turned round
MortiseChoice_Reversed(longSide, length1, length2) ==
    IF longSide
    THEN (IF LongerThan(length2, length1) THEN 1 ELSE 2)
    ELSE (IF LongerThan(length2, length1) THEN 2 ELSE 1)

\* Which of the two corner edges createParametricDogbones aligns a Mortise
\* hole with (1: edge1, 2: edge2); the outcome records it as "chosen"
MortiseChoice(longSide, length1, length2) ==
    IF longSide
    THEN (IF LongerThan(length1, length2) THEN 1 ELSE 2)
    ELSE (IF LongerThan(length1, length2) THEN 2 ELSE 1)

\* the comparison taken as "at least as long"
staticMortiseChoice_AtLeast(longSide, length0, length1) ==
    IF longSide
    THEN (IF ~LongerThan(length1, length0) THEN 1 ELSE 2)
    ELSE (IF ~LongerThan(length1, length0) THEN 2 ELSE 1)

\* The same choice as createStaticDogbones makes it
staticMortiseChoice(longSide, length0, length1) ==
    IF longSide
    THEN (IF LongerThan(length0, length1) THEN 1 ELSE 2)
    ELSE (IF LongerThan(length0, length1) THEN 2 ELSE 1)

\* DbEdge.dogboneCentre: the end of the selected edge on the selected face
dogboneCentre(b, edge) ==
    PointAt(VertexPoint(b, getVertexAtFace(PocketEdges(b), TopFace(b), edge)))

\* DbEdge.cornerVector: the unit bisector of the two faces of the edge
cornerVector(b, edge) ==
    normalize(VecAdd(EdgeFaceNormals(b, edge)[1], EdgeFaceNormals(b, edge)[2]))

\* The outcomes of createParametricDogbones for the selected edge
createParametricDogbones(b, edge, prm) ==
    LET body == PocketEdges(b)
        face == TopFace(b)
        offsetByStr == HoleOffset(prm)
        centreDistance == CentreDistance(prm)
        vertexAtFace == getVertexAtFace(body, face, edge)
        normals == EdgeFaceNormals(b, edge)
        Outcome(r) ==
            IF r.status # "ok"
            THEN \* the except clause only reports; edge1 is then unbound
                 [status |-> "crashed", path |-> "parametric"]
            ELSE
            LET edge1 == r.edges[1]
                edge2 == r.edges[2]
                direction0 == correctedEdgeVector(EdgeStartPoint(b, edge1),
                                  EdgeEndPoint(b, edge1), VertexPoint(b, vertexAtFace))
                direction1 == correctedEdgeVector(EdgeStartPoint(b, edge2),
                                  EdgeEndPoint(b, edge2), VertexPoint(b, vertexAtFace))
                choice == MortiseChoice(prm.longSide, EdgeLength(b, edge1), EdgeLength(b, edge2))
                dirVect ==
                    IF prm.dbType = Mortise
                    THEN (IF choice = 1 THEN direction0 ELSE direction1)
                    ELSE VecAdd(normals[1], normals[2])
            IN  [status |-> "done",
                 path |-> "parametric",
                 chosen |-> IF prm.dbType = Mortise THEN choice ELSE 0,
                 edge1 |-> edge1,
                 edge2 |-> edge2,
                 direction0 |-> IF prm.dbType = Mortise THEN direction0 ELSE ZeroVec,
                 direction1 |-> IF prm.dbType = Mortise THEN direction1 ELSE ZeroVec,
                 dirVect |-> dirVect,
                 centrePoint |-> translateBy(PointAt(VertexPoint(b, vertexAtFace)), dirVect),
                 edge1Offset |-> IF prm.dbType = Mortise /\ choice = 1
                                 THEN SurdZero ELSE offsetByStr,
                 edge2Offset |-> IF prm.dbType = Mortise /\ choice = 2
                                 THEN SurdZero ELSE offsetByStr,
                 offset |-> offsetByStr]
    IN  IF ~isEdgeAssociatedWithFace(body, face, edge)
        THEN {[status |-> "skipped", path |-> "parametric"]}
        ELSE {Outcome(r) : r \in GetCornerEdgesAtFace(body, face, edge)}

\* The outcomes of createStaticDogbones for the selected edge
createStaticDogbones(b, edge, prm) ==
    LET body == PocketEdges(b)
        face == TopFace(b)
        centreDistance == CentreDistance(prm)
        startPoint == dogboneCentre(b, edge).p
        Placed(edge0, edge1, direction0, direction1, choice, dirVect) ==
            [status |-> "done",
             path |-> "static",
             chosen |-> choice,
             edge1 |-> edge0,
             edge2 |-> edge1,
             direction0 |-> direction0,
             direction1 |-> direction1,
             dirVect |-> scaleBy(dirVect, SurdOfRat(centreDistance)),
             centrePoint |-> translateBy(dogboneCentre(b, edge),
                                 scaleBy(dirVect, SurdOfRat(centreDistance))),
             offset |-> HoleOffset(prm)]
        MortiseOutcome(r) ==
            IF r.status # "ok"
            THEN [status |-> "crashed", path |-> "static"]
            ELSE
            LET edge0 == r.edges[1]
                edge1 == r.edges[2]
                direction0 == correctedEdgeVector(EdgeStartPoint(b, edge0),
                                  EdgeEndPoint(b, edge0), startPoint)
                direction1 == correctedEdgeVector(EdgeStartPoint(b, edge1),
                                  EdgeEndPoint(b, edge1), startPoint)
                choice == staticMortiseChoice(prm.longSide, EdgeLength(b, edge0),
                              EdgeLength(b, edge1))
            IN  Placed(edge0, edge1, direction0, direction1, choice,
                       normalize(IF choice = 1 THEN direction0 ELSE direction1))
    IN  IF ~isEdgeAssociatedWithFace(body, face, edge)
        THEN {[status |-> "skipped", path |-> "static"]}
        ELSE IF prm.dbType = Mortise
             THEN {MortiseOutcome(r) : r \in GetCornerEdgesAtFace(body, face, edge)}
             ELSE {Placed(0, 0, ZeroVec, ZeroVec, 0, cornerVector(b, edge))}

\* onExecute: the parametric or the static routine, as the dialog says
ExecuteOutcomes(b, edge, prm) ==
    IF prm.parametric
    THEN createParametricDogbones(b, edge, prm)
    ELSE createStaticDogbones(b, edge, prm)

(***************************************************************************)
(* SpecPlace                                                               *)
(***************************************************************************)
DbTypes == {Normal, Minimal, Mortise}

MinimalPercents == {0, 10}

Params ==
    [toolDia : 0 .. MaxToolDia,
     toolDiaOffset : -(MaxToolDia + 1) .. 0,
     dbType : DbTypes,
     minimalPercent : MinimalPercents,
     longSide : BOOLEAN,
     parametric : BOOLEAN]

\* The edges of the selected face that meet the selected edge
CornerCandidates(b, edge) ==
    {edge - 2 * NSides(b), PrevSide(b, edge - 2 * NSides(b))}

InitPlace ==
    /\ cBody = <<>> /\ cFace = {} /\ cEdge = 0 /\ cResult = Idle
    /\ tFaces = <<>> /\ tSel = 0 /\ tOut = Idle /\ tMove = Idle
    /\ aEdge = Idle /\ aOut = Idle /\ batch = Idle /\ picks = Idle /\ run = Idle /\ sk = Idle
    /\ \E poly \in Polygons, depth \in 1 .. MaxDepth :
          \E edge \in (2 * Len(poly) + 1) .. (3 * Len(poly)) :
             \* the stored orientation of the edges away from the corner is never read
             \E flip \in SUBSET CornerCandidates([poly |-> poly], edge) :
                /\ pBody = [poly |-> poly, depth |-> depth, flip |-> flip]
                /\ pSel = edge
    /\ param \in Params
    /\ pOut = Idle

onExecute ==
    /\ pOut = Idle
    /\ InputsValid(param)
    /\ pOut' \in ExecuteOutcomes(pBody, pSel, param)
    /\ UNCHANGED <<cBody, cFace, cEdge, cResult, pBody, pSel, param, tFaces, tSel, tOut, tMove, aEdge, aOut, batch, picks, run, sk>>

NextPlace == onExecute

SpecPlace == InitPlace /\ [][NextPlace]_vars

(***************************************************************************)
(* dbutils.getTopFace                                                      *)
(* A face of the body is [planar, normal, vertex0]: whether its surface is *)
(* a plane, the unit normal the evaluator gives at face.pointOnFace, and   *)
(* the position of face.vertices.item(0).                                  *)
(***************************************************************************)
MaxFaces == 3

MaxHeight == 2

FaceNormals == {<<0, 0, 1>>, <<0, 0, -1>>, <<1, 0, 0>>}

BodyFaces ==
    [planar : BOOLEAN, normal : FaceNormals,
     vertex0 : {<<0, 0, z>> : z \in 0 .. MaxHeight}]

getFaceNormal(face) == face.normal

Cross(a, b) ==
    <<a[2] * b[3] - a[3] * b[2], a[3] * b[1] - a[1] * b[3], a[1] * b[2] - a[2] * b[1]>>

\* Vector3D.isParallelTo: the two vectors lie along the same line
isParallelTo(a, b) == Cross(a, b) = Origin

\* the distance measured from the origin instead of the reference point
FaceDistance_FromOrigin(selectedFace, face) ==
    Dot(face.vertex0, getFaceNormal(selectedFace))

\* The signed distance along the normal between the reference plane and the
\* plane through the face's first vertex, both cut by the reference line
FaceDistance(selectedFace, face) ==
    LET normal == getFaceNormal(selectedFace)
        refPoint == selectedFace.vertex0
        t == Dot(IntSub(face.vertex0, refPoint), normal)
        intersectionPoint == IntAdd(refPoint, IntScale(t, normal))
        directionVector == IntSub(intersectionPoint, refPoint)
    IN  Dot(directionVector, normal)

\* The [face, distance] entries for the faces that pass the parallel test,
\* in the order of body.faces
RECURSIVE FaceList(_, _, _)
FaceList(faces, sel, i) ==
    IF i > Len(faces) THEN <<>>
    ELSE LET rest == FaceList(faces, sel, i + 1)
         IN  IF ~isParallelTo(getFaceNormal(faces[sel]), getFaceNormal(faces[i]))
             THEN rest
             ELSE <<[face |-> i, distance |-> FaceDistance(faces[sel], faces[i])]>> \o rest

\* sorted(faceList, key = distance): ascending and stable
RECURSIVE InsertByDistance(_, _)
InsertByDistance(sortedList, entry) ==
    IF sortedList = <<>> THEN <<entry>>
    ELSE IF sortedList[Len(sortedList)].distance <= entry.distance
         THEN Append(sortedList, entry)
         ELSE Append(InsertByDistance(SubSeq(sortedList, 1, Len(sortedList) - 1), entry),
                     sortedList[Len(sortedList)])

RECURSIVE SortedByDistance(_)
SortedByDistance(faceList) ==
    IF faceList = <<>> THEN <<>>
    ELSE InsertByDistance(SortedByDistance(SubSeq(faceList, 1, Len(faceList) - 1)),
                          faceList[Len(faceList)])

getTopFace(faces, sel) ==
    LET sortedFaceList == SortedByDistance(FaceList(faces, sel, 1))
        top == sortedFaceList[Len(sortedFaceList)]
    IN  [status |-> "ok", face |-> top.face, distance |-> top.distance]

\* getTranslateVectorBetweenFaces with the distance taken as a magnitude
getTranslateVectorBetweenFaces_Absolute(fromFace, toFace) ==
    LET normal == getFaceNormal(fromFace)
    IN  [status |-> "ok",
         vector |-> IntScale(Abs(Dot(IntSub(toFace.vertex0, fromFace.vertex0), normal)), normal)]

(***************************************************************************)
(* dbutils.getTranslateVectorBetweenFaces                                  *)
(***************************************************************************)
getTranslateVectorBetweenFaces(fromFace, toFace) ==
    LET normal == getFaceNormal(fromFace)
        fromFacePoint == fromFace.vertex0
        toFacePoint ==
            IntAdd(fromFacePoint,
                   IntScale(Dot(IntSub(toFace.vertex0, fromFacePoint), normal), normal))
    IN  IF ~isParallelTo(normal, getFaceNormal(fromFace))
        THEN [status |-> "False", vector |-> Origin]
        ELSE [status |-> "ok", vector |-> IntSub(toFacePoint, fromFacePoint)]

(***************************************************************************)
(* A rectangular prism of unit base: bottom, top and the four sides, each  *)
(* with its outward normal and one of its vertices, in either order.       *)
(***************************************************************************)
PrismFace(normal, vertex0) == [planar |-> TRUE, normal |-> normal, vertex0 |-> vertex0]

Prism(h) ==
    << PrismFace(<<0, 0, -1>>, <<0, 0, 0>>),
       PrismFace(<<1, 0, 0>>, <<1, 0, 0>>),
       PrismFace(<<0, 1, 0>>, <<1, 1, 0>>),
       PrismFace(<<-1, 0, 0>>, <<0, 1, h>>),
       PrismFace(<<0, -1, 0>>, <<0, 0, h>>),
       PrismFace(<<0, 0, 1>>, <<1, 1, h>>) >>

Reversed(seq) == [i \in 1 .. Len(seq) |-> seq[Len(seq) + 1 - i]]

PrismBodies == UNION {{Prism(h), Reversed(Prism(h))} : h \in 1 .. MaxHeight}

(***************************************************************************)
(* SpecTop                                                                 *)
(***************************************************************************)
InitTop ==
    /\ cBody = <<>> /\ cFace = {} /\ cEdge = 0 /\ cResult = Idle
    /\ pBody = Idle /\ pSel = 0 /\ param = Idle /\ pOut = Idle
    /\ \/ \E n \in 1 .. MaxFaces : tFaces \in [1 .. n -> BodyFaces]
       \/ tFaces \in PrismBodies
    /\ tSel = 0
    /\ tOut = Idle
    /\ tMove = Idle
    /\ aEdge = Idle /\ aOut = Idle /\ batch = Idle /\ picks = Idle /\ run = Idle /\ sk = Idle

\* One call getTopFace(selectedFace) for a selected face of the body; the
\* face selection accepts planar faces only
CallGetTopFace ==
    \E sel \in DOMAIN tFaces :
        /\ tSel = 0
        /\ tFaces[sel].planar
        /\ tSel' = sel
        /\ tOut' = getTopFace(tFaces, sel)
        /\ UNCHANGED <<cBody, cFace, cEdge, cResult, pBody, pSel, param, pOut, tFaces, tMove, aEdge, aOut, batch, picks, run, sk>>

\* transformVector = getTranslateVectorBetweenFaces(face, topFace), for the
\* selected face and the top face found for it
TranslateToTopFace ==
    /\ tSel # 0
    /\ tMove = Idle
    /\ tMove' = [from |-> tSel, to |-> tOut.face,
                 result |-> getTranslateVectorBetweenFaces(tFaces[tSel], tFaces[tOut.face])]
    /\ UNCHANGED <<cBody, cFace, cEdge, cResult, pBody, pSel, param, pOut, tFaces, tSel, tOut, aEdge, aOut, batch, picks, run, sk>>

NextTop == CallGetTopFace \/ TranslateToTopFace

SpecTop == InitTop /\ [][NextTop]_vars

(***************************************************************************)
(* SpecMove: getTranslateVectorBetweenFaces for any two faces              *)
(***************************************************************************)
InitMove ==
    /\ cBody = <<>> /\ cFace = {} /\ cEdge = 0 /\ cResult = Idle
    /\ pBody = Idle /\ pSel = 0 /\ param = Idle /\ pOut = Idle
    /\ tFaces \in [1 .. 2 -> BodyFaces]
    /\ tSel = 0
    /\ tOut = Idle
    /\ tMove = Idle
    /\ aEdge = Idle /\ aOut = Idle /\ batch = Idle /\ picks = Idle /\ run = Idle /\ sk = Idle

CallGetTranslateVectorBetweenFaces ==
    \E from \in DOMAIN tFaces, to \in DOMAIN tFaces :
        /\ tMove = Idle
        /\ tMove' = [from |-> from, to |-> to,
                     result |-> getTranslateVectorBetweenFaces(tFaces[from], tFaces[to])]
        /\ UNCHANGED <<cBody, cFace, cEdge, cResult, pBody, pSel, param, pOut, tFaces, tSel, tOut, aEdge, aOut, batch, picks, run, sk>>

NextMove == CallGetTranslateVectorBetweenFaces

SpecMove == InitMove /\ [][NextMove]_vars

(***************************************************************************)
(* dbutils.getAngleBetweenFaces                                            *)
(* Angles are counted in degrees.  An edge is [faces, coEdges, startPoint, *)
(* endPoint]; a face of it [id, planar, normal], a co-edge [face,          *)
(* isOpposedToEdge] with face the id of coEdge.loop.face.  Normals are     *)
(* given by their direction: angleTo and crossProduct are only used for    *)
(* what does not depend on a vector's length.                              *)
(***************************************************************************)
Pi == 180

\* Vector3D.angleTo for directions that are multiples of 45 degrees apart
AngleTo(a, b) ==
    LET d == Dot(a, b)
        sq == Dot(a, a) * Dot(b, b)
    IN  IF d = 0 THEN 90
        ELSE IF d * d = sq THEN (IF d > 0 THEN 0 ELSE 180)
        ELSE IF d > 0 THEN 45 ELSE 135

\* getEdgeVector with the reverse argument ignored
getEdgeVector_Unreversed(edge, reverse) == IntSub(edge.endPoint, edge.startPoint)

\* getEdgeVector(edge, reverse = ...), refFace not given
getEdgeVector(edge, reverse) ==
    IF reverse
    THEN IntSub(edge.startPoint, edge.endPoint)
    ELSE IntSub(edge.endPoint, edge.startPoint)

\* the co-edge taken from the second face when the first is meant
CoEdgeOfFace_Other(edge, face) ==
    IF edge.coEdges[1].face = face.id THEN edge.coEdges[2] ELSE edge.coEdges[1]

\* coEdge = coEdge1 if coEdge1.loop.face == face1 else coEdge2
CoEdgeOfFace(edge, face) ==
    IF edge.coEdges[1].face = face.id THEN edge.coEdges[1] ELSE edge.coEdges[2]

\* The outcomes of getAngleBetweenFaces(edge).  Unpacking edge.faces into
\* face1, face2 raises ValueError unless there are exactly two; the angle to a
\* zero cross product is not defined, either branch may be taken.
getAngleBetweenFaces(edge) ==
    IF Len(edge.faces) # 2 \/ Len(edge.coEdges) # 2
    THEN {[status |-> "ValueError", angle |-> 0]}
    ELSE LET face1 == edge.faces[1]
             face2 == edge.faces[2]
             normal1 == face1.normal
             normal2 == face2.normal
             normalAngle == AngleTo(normal1, normal2)
             coEdge == CoEdgeOfFace(edge, face1)
             edgeVec == getEdgeVector(edge, coEdge.isOpposedToEdge)
             cross == Cross(normal2, normal1)
             exceeds == IF cross = Origin THEN BOOLEAN
                        ELSE {AngleTo(edgeVec, cross) > Pi \div 2}
         IN  IF ~face1.planar \/ ~face2.planar
             THEN {[status |-> "ok", angle |-> 0]}
             ELSE {[status |-> "ok",
                    angle |-> IF x THEN (Pi * 2) - (Pi - normalAngle)
                              ELSE Pi - normalAngle] : x \in exceeds}

(***************************************************************************)
(* The edges the classifier is run on.  The edge lies on the z axis; face  *)
(* i extends from it in the direction m_i (one of eight directions in the  *)
(* xy plane) and the solid fills the wedge from face 1 round to face 2,    *)
(* counter-clockwise or clockwise.  Normals point out of the solid; the    *)
(* co-edge of a face runs counter-clockwise round it seen from outside.    *)
(***************************************************************************)
Compass ==
    {<<1, 0, 0>>, <<1, 1, 0>>, <<0, 1, 0>>, <<-1, 1, 0>>,
     <<-1, 0, 0>>, <<-1, -1, 0>>, <<0, -1, 0>>, <<1, -1, 0>>}

Rot90(m) == <<-m[2], m[1], 0>>

Neg(m) == <<-m[1], -m[2], -m[3]>>

\* The angle from m1 round to m2, counter-clockwise (180 when opposite)
AngleRound(m1, m2) ==
    LET z == Cross(m1, m2)[3]
    IN  IF z > 0 THEN AngleTo(m1, m2)
        ELSE IF z < 0 THEN 2 * Pi - AngleTo(m1, m2)
        ELSE Pi

OutwardNormal(m, solidOnLeft) == IF solidOnLeft THEN Neg(Rot90(m)) ELSE Rot90(m)

\* A co-edge opposes the edge when its direction is not the stored one
CoEdgeRecord(id, m, normal, up) ==
    [face |-> id,
     isOpposedToEdge |-> (Sign(Cross(m, normal)[3]) # (IF up THEN 1 ELSE -1))]

EdgePoints(up) ==
    IF up THEN [startPoint |-> Origin, endPoint |-> <<0, 0, 1>>]
    ELSE [startPoint |-> <<0, 0, 1>>, endPoint |-> Origin]

\* An edge between two faces of a solid
SolidEdge(m1, m2, solidCCW, planar1, planar2, up, swapCoEdges) ==
    LET n1 == OutwardNormal(m1, solidCCW)
        n2 == OutwardNormal(m2, ~solidCCW)
        c1 == CoEdgeRecord(1, m1, n1, up)
        c2 == CoEdgeRecord(2, m2, n2, up)
    IN  [faces |-> <<[id |-> 1, planar |-> planar1, normal |-> n1],
                     [id |-> 2, planar |-> planar2, normal |-> n2]>>,
         coEdges |-> IF swapCoEdges THEN <<c2, c1>> ELSE <<c1, c2>>,
         startPoint |-> EdgePoints(up).startPoint,
         endPoint |-> EdgePoints(up).endPoint,
         interior |-> IF solidCCW THEN AngleRound(m1, m2) ELSE 2 * Pi - AngleRound(m1, m2)]

\* A boundary edge of an open surface: one face only
OpenEdge(m1, planar1, up) ==
    LET n1 == OutwardNormal(m1, TRUE)
    IN  [faces |-> <<[id |-> 1, planar |-> planar1, normal |-> n1]>>,
         coEdges |-> <<CoEdgeRecord(1, m1, n1, up)>>,
         startPoint |-> EdgePoints(up).startPoint,
         endPoint |-> EdgePoints(up).endPoint,
         interior |-> 0]

\* An edge of a wire body: no face
WireEdge(up) ==
    [faces |-> <<>>, coEdges |-> <<>>,
     startPoint |-> EdgePoints(up).startPoint,
     endPoint |-> EdgePoints(up).endPoint,
     interior |-> 0]

Edges ==
    {SolidEdge(m1, m2, s, p1, p2, up, sw) :
        m1 \in Compass, m2 \in Compass, s \in BOOLEAN, p1 \in BOOLEAN, p2 \in BOOLEAN,
        up \in BOOLEAN, sw \in BOOLEAN}
    \cup {OpenEdge(m1, p1, up) : m1 \in Compass, p1 \in BOOLEAN, up \in BOOLEAN}
    \cup {WireEdge(up) : up \in BOOLEAN}

(***************************************************************************)
(* SpecAngle                                                               *)
(***************************************************************************)
InitAngle ==
    /\ cBody = <<>> /\ cFace = {} /\ cEdge = 0 /\ cResult = Idle
    /\ pBody = Idle /\ pSel = 0 /\ param = Idle /\ pOut = Idle
    /\ tFaces = <<>> /\ tSel = 0 /\ tOut = Idle /\ tMove = Idle
    /\ aEdge \in {e \in Edges : Len(e.faces) = 2 => e.faces[1].normal # Neg(e.faces[2].normal)}
    /\ aOut = Idle
    /\ batch = Idle /\ picks = Idle /\ run = Idle /\ sk = Idle

CallGetAngleBetweenFaces ==
    /\ aOut = Idle
    /\ aOut' \in getAngleBetweenFaces(aEdge)
    /\ UNCHANGED <<cBody, cFace, cEdge, cResult, pBody, pSel, param, pOut,
                   tFaces, tSel, tOut, tMove, aEdge, batch, picks, run, sk>>

NextAngle == CallGetAngleBetweenFaces

SpecAngle == InitAngle /\ [][NextAngle]_vars

(***************************************************************************)
(* Dogbone.py: the edge loops of createParametricDogbones and              *)
(* createStaticDogbones, for one selected face (cFace of cBody) and its    *)
(* selected edges.  batch holds the routine's locals: pc the position in   *)
(* selectedEdges, edge1 and edge2 the corner edges last assigned (0: not   *)
(* yet bound), holes and points what has been created, messages the        *)
(* message boxes shown for single edges, summary whether the 'Reported     *)
(* errors' box was shown.                                                  *)
(***************************************************************************)
\* selectedFace.selectedEdges: edges of the body that touch the face, in the
\* order in which they were selected
SelectedEdgeLists(body, face) ==
    UNION {Orderings(S) : S \in (SUBSET {e \in DOMAIN body :
                                            isEdgeAssociatedWithFace(body, face, e)}) \ {{}}}

\* Vertex names carry no meaning: the vertices in use are 1 .. k
VerticesInOrder(body) ==
    LET used == UNION {{body[e][1], body[e][2]} : e \in DOMAIN body}
    IN  used = 1 .. Cardinality(used)

\* A face whose boundary pinches at a vertex: two loops of two edges each,
\* vertex 1 to 2 and vertex 2 to 3, meeting at vertex 2 (two pockets that
\* touch at a corner); the edges in flips are stored end to start.
PinchedBody(flips) ==
    [e \in 1 .. 4 |->
        LET pair == <<<<1, 2>>, <<1, 2>>, <<2, 3>>, <<2, 3>>>>[e]
        IN  IF e \in flips THEN <<pair[2], pair[1]>> ELSE pair]

PinchedBodies == {PinchedBody(flips) : flips \in SUBSET (1 .. 4)}

Created(edge, edge1, edge2) == [edge |-> edge, edge1 |-> edge1, edge2 |-> edge2]

\* One pass of the loop body of createParametricDogbones (lines 755-858) for
\* the edge at pc, getCornerEdgesAtFace having given r
ParametricEdgePass(b, r) ==
    LET edge == b.edges[b.pc]
        failed == r.status # "ok"
        \* except: logger.exception and messageBox; edge1, edge2 keep their values
        edge1 == IF failed THEN b.edge1 ELSE r.edges[1]
        edge2 == IF failed THEN b.edge2 ELSE r.edges[2]
        reported == [b EXCEPT !.messages = IF failed THEN @ + 1 ELSE @]
    IN  IF edge1 = 0
        THEN \* edge1 is read before any assignment: UnboundLocalError
             [reported EXCEPT !.status = "aborted"]
        ELSE [reported EXCEPT !.edge1 = edge1, !.edge2 = edge2,
                              !.holes = Append(@, Created(edge, edge1, edge2)),
                              !.pc = @ + 1]

\* One pass of the loop body of createStaticDogbones (lines 933-989)
StaticEdgePass(b, r) ==
    LET edge == b.edges[b.pc]
    IN  IF b.dbType = Mortise
        THEN IF r.status # "ok"
             THEN \* the NameError leaves the routine
                  [b EXCEPT !.status = "aborted"]
             ELSE [b EXCEPT !.edge1 = r.edges[1], !.edge2 = r.edges[2],
                            !.points = Append(@, Created(edge, r.edges[1], r.edges[2])),
                            !.pc = @ + 1]
        ELSE [b EXCEPT !.points = Append(@, Created(edge, 0, 0)), !.pc = @ + 1]

(***************************************************************************)
(* SpecBatch                                                               *)
(***************************************************************************)
InitBatch ==
    /\ pBody = Idle /\ pSel = 0 /\ param = Idle /\ pOut = Idle
    /\ tFaces = <<>> /\ tSel = 0 /\ tOut = Idle /\ tMove = Idle
    /\ aEdge = Idle /\ aOut = Idle /\ picks = Idle /\ run = Idle /\ sk = Idle
    /\ \/ \E n \in 1 .. MaxEdges : cBody \in {body \in EdgeLists(n) : VerticesInOrder(body)}
       \/ cBody \in PinchedBodies
    /\ cFace \in {f \in SUBSET (DOMAIN cBody) : ClosedFace(cBody, f)}
    /\ cEdge = 0
    /\ cResult = Idle
    /\ \E edges \in SelectedEdgeLists(cBody, cFace), parametric \in BOOLEAN,
          dbType \in {Normal, Mortise} :
          batch = [status |-> "running", parametric |-> parametric, dbType |-> dbType,
                   edges |-> edges, pc |-> 1, edge1 |-> 0, edge2 |-> 0,
                   holes |-> <<>>, points |-> <<>>,
                   errorCount |-> 0, messages |-> 0, summary |-> FALSE]

\* The loop body for the next selected edge
ProcessSelectedEdge ==
    /\ batch.status = "running"
    /\ batch.pc <= Len(batch.edges)
    /\ IF ~isEdgeAssociatedWithFace(cBody, cFace, batch.edges[batch.pc])
       THEN batch' = [batch EXCEPT !.pc = @ + 1]
       ELSE \E r \in GetCornerEdgesAtFace(cBody, cFace, batch.edges[batch.pc]) :
               batch' = IF batch.parametric
                        THEN ParametricEdgePass(batch, r)
                        ELSE StaticEdgePass(batch, r)
    /\ UNCHANGED <<cBody, cFace, cEdge, cResult, pBody, pSel, param, pOut,
                   tFaces, tSel, tOut, tMove, aEdge, aOut, picks, run, sk>>

\* After the loop: the static routine makes its holes from the sketch points;
\* both show the summary when errorCount > 0
FinishBatch ==
    /\ batch.status = "running"
    /\ batch.pc > Len(batch.edges)
    /\ batch' = [batch EXCEPT !.status = "done",
                              !.holes = IF batch.parametric THEN @ ELSE batch.points,
                              !.summary = batch.errorCount > 0]
    /\ UNCHANGED <<cBody, cFace, cEdge, cResult, pBody, pSel, param, pOut,
                   tFaces, tSel, tOut, tMove, aEdge, aOut, picks, run, sk>>

NextBatch == ProcessSelectedEdge \/ FinishBatch

SpecBatch == InitBatch /\ [][NextBatch]_vars

(***************************************************************************)
(* Face selection: DogboneCommand.onFaceSelect and onChange                *)
(* A face of the design is [key, component, normal]: the hash of its       *)
(* occurrence's (or, in the root component, its body's) entity token, the  *)
(* component of its assemblyContext (0: none, a root component body) and   *)
(* its normal. A DbFace object is [face, isSelected].                      *)
(***************************************************************************)
MaxEvents == 3

DesignFace(key, component, normal) ==
    [key |-> key, component |-> component, normal |-> normal]

\* A body of the root component, two occurrences of one component
DesignFaces ==
    << DesignFace(1, 0, <<0, 0, 1>>), DesignFace(1, 0, <<0, 0, -1>>),
       DesignFace(1, 0, <<1, 0, 0>>),
       DesignFace(2, 1, <<0, 0, 1>>), DesignFace(2, 1, <<0, 0, -1>>),
       DesignFace(2, 1, <<1, 0, 0>>),
       DesignFace(3, 1, <<0, 0, 1>>) >>

FaceIds == DOMAIN DesignFaces

Range(seq) == {seq[i] : i \in DOMAIN seq}

Min(S) == CHOOSE x \in S : \A y \in S : x <= y

\* DbFace(parent, face, commandInputsEdgeSelect): a new object, selected
DbFace(f) == [face |-> f, isSelected |-> TRUE]

\* DbFace.deselectAll and DbFace.deleteEdges, read when a face is taken out
\* of the selection: whether they clear isSelected is open (removalDeselects)
deselectAll(st, obj) ==
    IF st.removalDeselects THEN [obj EXCEPT !.isSelected = FALSE] ELSE obj

deleteEdges(st, obj) ==
    IF st.removalDeselects THEN [obj EXCEPT !.isSelected = FALSE] ELSE obj

\* self.selectedOccurrences.get(key): position of the key, 0 when absent
GroupIndex(st, key) ==
    IF \E g \in DOMAIN st.selectedOccurrences : st.selectedOccurrences[g].key = key
    THEN CHOOSE g \in DOMAIN st.selectedOccurrences : st.selectedOccurrences[g].key = key
    ELSE 0

\* set(self.selectedFaces.keys())
SelectedFaceKeys(st) == {f \in FaceIds : st.selectedFaces[f] # 0}

\* onFaceSelect for the face selection input: the value of isSelectable
onFaceSelect(st, f) ==
    LET entity == DesignFaces[f]
        occs == st.selectedOccurrences
        g == GroupIndex(st, entity.key)
    IN  IF Len(occs) = 0 THEN TRUE
        ELSE IF entity.component = 0
        THEN \* a body of the root component
             IF g = 0 THEN TRUE     \* KeyError: isSelectable stays as the event had it
             ELSE LET faces == occs[g].faces
                      selected == {k \in DOMAIN faces : st.objects[faces[k]].isSelected}
                  IN  IF selected = {} THEN TRUE
                      ELSE isParallelTo(
                               DesignFaces[st.objects[faces[Min(selected)]].face].normal,
                               entity.normal)
        ELSE \* a face of an occurrence
             LET selectedComponentList ==
                     {DesignFaces[st.objects[occs[x].faces[1]].face].component :
                         x \in {y \in DOMAIN occs :
                                  DesignFaces[st.objects[occs[y].faces[1]].face].component # 0}}
             IN  IF entity.component \notin selectedComponentList THEN TRUE
                 ELSE IF g = 0 THEN FALSE
                 ELSE LET first == st.objects[occs[g].faces[1]]
                      IN  IF ~first.isSelected THEN TRUE
                          ELSE isParallelTo(DesignFaces[first.face].normal, entity.normal)

\* onChange, faces added: one pass of "for faceId in addedFaces" per added
\* face, each appending a DbFace for every added face to the list of the
\* pass's own occurrence; order is the iteration order of the set
RECURSIVE FacesAdded(_, _, _)
FacesAdded(st, order, i) ==
    IF i > Len(order) THEN st
    ELSE LET activeOccurrenceId == DesignFaces[order[i]].key
             base == Len(st.objects)
             t == [k \in DOMAIN order |-> base + k]
             g == GroupIndex(st, activeOccurrenceId)
         IN  FacesAdded(
                 [st EXCEPT
                    !.objects = @ \o [k \in DOMAIN order |-> DbFace(order[k])],
                    !.selectedOccurrences =
                        IF g = 0
                        THEN Append(@, [key |-> activeOccurrenceId, faces |-> t])
                        ELSE [@ EXCEPT ![g].faces = @ \o t],
                    !.selectedFaces =
                        [f \in FaceIds |->
                            IF \E k \in DOMAIN order : order[k] = f
                            THEN base + (CHOOSE k \in DOMAIN order : order[k] = f)
                            ELSE @[f]]],
                 order, i + 1)

\* onChange for the face selection input; selection is the input's new
\* content. Faces taken out are popped from selectedFaces only.
onChangeFaces(st, selection, order) ==
    LET keys == SelectedFaceKeys(st)
        missingFaces == (keys \ Range(selection)) \cup (Range(selection) \ keys)
        Held(S) == {st.selectedFaces[f] : f \in S}
    IN  IF Cardinality(keys) > Len(selection)
        THEN IF Len(selection) = 0
             THEN [st EXCEPT !.objects = [o \in DOMAIN @ |->
                                            IF o \in Held(keys)
                                            THEN deselectAll(st, @[o]) ELSE @[o]],
                             !.selectedFaces = [f \in FaceIds |-> 0],
                             !.input = selection]
             ELSE [st EXCEPT !.objects = [o \in DOMAIN @ |->
                                            IF o \in Held(missingFaces)
                                            THEN deleteEdges(st, @[o]) ELSE @[o]],
                             !.selectedFaces = [f \in FaceIds |->
                                                   IF f \in missingFaces THEN 0 ELSE @[f]],
                             !.input = selection]
        ELSE FacesAdded([st EXCEPT !.input = selection], order, 1)

\* The faces in the order the two routines take them: the lists of
\* selectedOccurrences.values(), one after the other
RECURSIVE ProcessingOrder(_, _)
ProcessingOrder(st, g) ==
    IF g > Len(st.selectedOccurrences) THEN <<>>
    ELSE [k \in DOMAIN st.selectedOccurrences[g].faces |->
             st.objects[st.selectedOccurrences[g].faces[k]].face]
         \o ProcessingOrder(st, g + 1)

(***************************************************************************)
(* SpecSelect                                                              *)
(***************************************************************************)
InitSelect ==
    /\ cBody = <<>> /\ cFace = {} /\ cEdge = 0 /\ cResult = Idle
    /\ pBody = Idle /\ pSel = 0 /\ param = Idle /\ pOut = Idle
    /\ tFaces = <<>> /\ tSel = 0 /\ tOut = Idle /\ tMove = Idle
    /\ aEdge = Idle /\ aOut = Idle /\ batch = Idle /\ run = Idle /\ sk = Idle
    /\ \E removalDeselects \in BOOLEAN :
          picks = [input |-> <<>>,
                 selectedFaces |-> [f \in FaceIds |-> 0],
                 selectedOccurrences |-> <<>>,
                 objects |-> <<>>,
                 removalDeselects |-> removalDeselects,
                 events |-> 0,
                 hover |-> Idle,
                 executed |-> FALSE,
                 processed |-> <<>>]

\* The pointer is over a face that is not selected
HoverFace ==
    /\ ~picks.executed
    /\ \E f \in FaceIds \ Range(picks.input) :
          picks' = [picks EXCEPT !.hover = [face |-> f, isSelectable |-> onFaceSelect(picks, f)]]
    /\ UNCHANGED <<cBody, cFace, cEdge, cResult, pBody, pSel, param, pOut,
                   tFaces, tSel, tOut, tMove, aEdge, aOut, batch, run, sk>>

\* The new content of the face selection input after one more face was
\* picked, after two were picked at once, after one was taken out, or after
\* the selection was cleared; only selectable faces can be picked
SelectionChanges ==
    {[selection |-> Append(picks.input, f), order |-> <<f>>] :
        f \in {x \in FaceIds \ Range(picks.input) : onFaceSelect(picks, x)}}
    \cup
    UNION {{[selection |-> picks.input \o <<pair[1], pair[2]>>, order |-> order] :
               order \in Orderings({pair[1], pair[2]})} :
             pair \in {q \in (FaceIds \ Range(picks.input)) \X (FaceIds \ Range(picks.input)) :
                         /\ q[1] < q[2]
                         /\ onFaceSelect(picks, q[1]) /\ onFaceSelect(picks, q[2])}}
    \cup
    {[selection |-> [k \in 1 .. Len(picks.input) - 1 |->
                        IF k < i THEN picks.input[k] ELSE picks.input[k + 1]],
      order |-> <<>>] : i \in DOMAIN picks.input}
    \cup
    {[selection |-> <<>>, order |-> <<>>] : i \in DOMAIN picks.input}

onChange ==
    /\ ~picks.executed
    /\ picks.events < MaxEvents
    /\ \E change \in SelectionChanges :
          picks' = [onChangeFaces(picks, change.selection, change.order)
                     EXCEPT !.events = picks.events + 1, !.hover = Idle]
    /\ UNCHANGED <<cBody, cFace, cEdge, cResult, pBody, pSel, param, pOut,
                   tFaces, tSel, tOut, tMove, aEdge, aOut, batch, run, sk>>

\* onExecute with at least one face in the selection input (onValidate)
ProcessSelectedOccurrences ==
    /\ ~picks.executed
    /\ Len(picks.input) >= 1
    /\ picks' = [picks EXCEPT !.executed = TRUE,
                                !.processed = ProcessingOrder(picks, 1),
                                !.hover = Idle]
    /\ UNCHANGED <<cBody, cFace, cEdge, cResult, pBody, pSel, param, pOut,
                   tFaces, tSel, tOut, tMove, aEdge, aOut, batch, run, sk>>

NextSelect == HoverFace \/ onChange \/ ProcessSelectedOccurrences

SpecSelect == InitSelect /\ [][NextSelect]_vars

(***************************************************************************)
(* The two routines working through selectedOccurrences: the face handles  *)
(* they keep, the top face, and the hole features of the component.        *)
(* An entry of the work list is [group, face, edges]: the position of its  *)
(* occurrence's list in selectedOccurrences, the selected face (an index   *)
(* of the body's faces) and the number of its selected edges.              *)
(***************************************************************************)
MaxFaceEdges == 2

\* A block with a pocket: underside, pocket floor, top and one side
Block(h) ==
    << PrismFace(<<0, 0, -1>>, <<0, 0, 0>>),
       PrismFace(<<0, 0, 1>>, <<0, 0, 1>>),
       PrismFace(<<0, 0, 1>>, <<1, 1, 1 + h>>),
       PrismFace(<<1, 0, 0>>, <<1, 0, 0>>) >>

\* One face, two faces of one occurrence, one face on each of two
GroupShapes == {<<1>>, <<1, 1>>, <<1, 2>>}

WorkLists ==
    UNION {{w \in [DOMAIN shape -> [group : Range(shape), face : DOMAIN Block(1),
                                    edges : 0 .. MaxFaceEdges]] :
               \A i \in DOMAIN shape : w[i].group = shape[i]} : shape \in GroupShapes}

\* Hole features of the component that were there before the command ran
ExistingHoles ==
    {<<>>, <<[name |-> "Hole", isSuppressed |-> FALSE, created |-> FALSE]>>}

\* hole.name[:7] == 'dogbone'
IsDogboneName(name) == name = "dogbone"

\* A change of the model by the kernel: any of the face handles kept by the
\* command may have become invalid
KernelMutation(r) ==
    {[r EXCEPT !.native = [i \in DOMAIN @ |-> @[i] /\ i \notin lost],
               !.topValid = @ /\ topKept] :
        lost \in SUBSET (DOMAIN r.native), topKept \in BOOLEAN}

\* for hole in holes: stop at the first that is not named dogbone
RECURSIVE UnsuppressDogbones(_, _)
UnsuppressDogbones(holes, k) ==
    IF k > Len(holes) THEN holes
    ELSE IF ~IsDogboneName(holes[k].name) THEN holes
    ELSE UnsuppressDogbones([holes EXCEPT ![k].isSuppressed = FALSE], k + 1)

\* The next entry of the work list, or the end of the routine
NextEntry(r) ==
    IF r.i = Len(r.faces) THEN [r EXCEPT !.status = "done"]
    ELSE [r EXCEPT !.i = @ + 1, !.e = 1,
                   !.phase = IF r.faces[r.i + 1].group # r.faces[r.i].group
                             THEN "group" ELSE "face"]

\* The use of a face handle whose isValid is False ends the routine
InvalidHandleUsed(r) == [r EXCEPT !.status = "aborted", !.invalidUse = TRUE]

(***************************************************************************)
(* SpecRun                                                                 *)
(***************************************************************************)
InitRun ==
    /\ cBody = <<>> /\ cFace = {} /\ cEdge = 0 /\ cResult = Idle
    /\ pBody = Idle /\ pSel = 0 /\ param = Idle /\ pOut = Idle
    /\ tFaces = <<>> /\ tSel = 0 /\ tOut = Idle /\ tMove = Idle
    /\ aEdge = Idle /\ aOut = Idle /\ batch = Idle /\ picks = Idle /\ sk = Idle
    /\ \E parametric \in BOOLEAN, fromTop \in BOOLEAN, h \in 1 .. MaxHeight,
          faces \in WorkLists, holes \in ExistingHoles :
          run = [status |-> "running", parametric |-> parametric, fromTop |-> fromTop,
                 h |-> h, faces |-> faces,
                 native |-> [i \in DOMAIN faces |-> TRUE],
                 i |-> 1, e |-> 1, phase |-> "group",
                 topFace |-> 0, topValid |-> FALSE, transformVector |-> Origin,
                 holes |-> holes, holesBound |-> FALSE, holeList |-> 0,
                 centres |-> {}, topCalls |-> [g \in 1 .. 2 |-> 0],
                 invalidUse |-> FALSE]

\* Start of "for occurrenceFaces in self.selectedOccurrences.values()":
\* getTopFace(occurrenceFaces[0].native) when holes go from the top face;
\* the static routine then adds its sketch on the top face
StartGroup ==
    /\ run.status = "running" /\ run.phase = "group"
    /\ IF ~run.fromTop
       THEN run' = [run EXCEPT !.phase = "face"]
       ELSE IF ~run.native[run.i]
       THEN run' = InvalidHandleUsed(run)
       ELSE LET top == getTopFace(Block(run.h), run.faces[run.i].face)
                found == [run EXCEPT !.topFace = top.face, !.topValid = TRUE,
                                     !.topCalls[run.faces[run.i].group] = @ + 1,
                                     !.phase = "face"]
            IN  IF run.parametric THEN run' = found
                ELSE run' \in KernelMutation(found)
    /\ UNCHANGED <<cBody, cFace, cEdge, cResult, pBody, pSel, param, pOut,
                   tFaces, tSel, tOut, tMove, aEdge, aOut, batch, picks, sk>>

\* Start of "for selectedFace in occurrenceFaces": the face and the top face
\* are revalidated when invalid, the vector to the top face is computed; the
\* static routine skips a face without edges and, when holes do not go from
\* the top face, adds a sketch on the face
StartFace ==
    /\ run.status = "running" /\ run.phase = "face"
    /\ IF ~run.parametric /\ run.faces[run.i].edges < 1
       THEN run' = NextEntry(run)
       ELSE LET face == Block(run.h)[run.faces[run.i].face]
                ready == [run EXCEPT
                            !.native[run.i] = TRUE,
                            !.topValid = IF run.fromTop THEN TRUE ELSE @,
                            !.transformVector =
                                IF run.fromTop
                                THEN getTranslateVectorBetweenFaces(
                                         face, Block(run.h)[run.topFace]).vector
                                ELSE @,
                            !.holeList = 0, !.e = 1, !.phase = "edge"]
            IN  IF ~run.parametric /\ ~run.fromTop
                THEN run' \in KernelMutation(ready)
                ELSE run' = ready
    /\ UNCHANGED <<cBody, cFace, cEdge, cResult, pBody, pSel, param, pOut,
                   tFaces, tSel, tOut, tMove, aEdge, aOut, batch, picks, sk>>

\* One selected edge: the face is revalidated, the centre is moved to the
\* top face when holes go from there, and the hole (parametric: added
\* suppressed and named dogbone) or the sketch point (static) is created
ProcessEdge ==
    /\ run.status = "running" /\ run.phase = "edge"
    /\ run.e <= run.faces[run.i].edges
    /\ LET face == Block(run.h)[run.faces[run.i].face]
           centrePoint == IF run.fromTop
                          THEN IntAdd(face.vertex0, run.transformVector)
                          ELSE face.vertex0
           placed == [run EXCEPT
                         !.native[run.i] = TRUE,
                         !.centres = @ \cup {[face |-> run.faces[run.i].face,
                                              top |-> run.topFace,
                                              point |-> centrePoint]},
                         !.e = @ + 1]
       IN  IF run.parametric
           THEN run' \in KernelMutation(
                    [placed EXCEPT !.holes = Append(@, [name |-> "dogbone",
                                                        isSuppressed |-> TRUE,
                                                        created |-> TRUE]),
                                   !.holesBound = TRUE])
           ELSE run' \in KernelMutation([placed EXCEPT !.holeList = @ + 1])
    /\ UNCHANGED <<cBody, cFace, cEdge, cResult, pBody, pSel, param, pOut,
                   tFaces, tSel, tOut, tMove, aEdge, aOut, batch, picks, sk>>

\* After the edges of a face: the parametric routine unsuppresses the holes
\* (its variable holes is unbound when no edge was processed yet); the
\* static routine revalidates the face and makes a hole from its points
FinishFace ==
    /\ run.status = "running" /\ run.phase = "edge"
    /\ run.e > run.faces[run.i].edges
    /\ IF run.parametric
       THEN IF ~run.holesBound
            THEN run' = [run EXCEPT !.status = "aborted"]
            ELSE run' \in KernelMutation(
                     NextEntry([run EXCEPT !.holes = UnsuppressDogbones(@, 1)]))
       ELSE IF run.holeList = 0
            THEN run' = NextEntry(run)
            ELSE run' \in KernelMutation(
                     NextEntry([run EXCEPT
                                   !.native[run.i] = TRUE,
                                   !.holes = Append(@, [name |-> "Hole",
                                                        isSuppressed |-> FALSE,
                                                        created |-> TRUE])]))
    /\ UNCHANGED <<cBody, cFace, cEdge, cResult, pBody, pSel, param, pOut,
                   tFaces, tSel, tOut, tMove, aEdge, aOut, batch, picks, sk>>

NextRun == StartGroup \/ StartFace \/ ProcessEdge \/ FinishFace

SpecRun == InitRun /\ [][NextRun]_vars

(***************************************************************************)
(* Dogbone.py: createStaticDogbones for one selected face (cFace of cBody):*)
(* the edge loop that fills holeList with [length, sketchPoint] and the    *)
(* loop over depthList that makes one hole feature per depth.  sk holds    *)
(* the locals: pc the position in selectedFace.selectedEdges, holeList,    *)
(* depthList the depths not yet iterated, holes the features added.  A     *)
(* sketch point is named by the position of its edge in selectedEdges.     *)
(***************************************************************************)
\* Two pockets that do not touch: edges 1,2 join vertices 1-2, edges 3,4 join
\* vertices 3-4
SeparateBody == <<<<1, 2>>, <<1, 2>>, <<3, 4>>, <<3, 4>>>>

SketchBodies == {PinchedBody({}), SeparateBody}

\* A DbEdge of selectedFace.selectedEdges: the kernel edge, isSelected,
\* edge.isValid and edge.length
DbEdge(edge, isSelected, isValid, length) ==
    [edge |-> edge, isSelected |-> isSelected, isValid |-> isValid, length |-> length]

\* selectedFace.selectedEdges: up to MaxFaceEdges different edges of the body
SketchEdgeLists(body) ==
    UNION {{[i \in DOMAIN order |-> DbEdge(order[i], flags[i][1], flags[i][2], flags[i][3])] :
                flags \in [DOMAIN order -> BOOLEAN \X BOOLEAN \X (1 .. MaxDepth + 1)]} :
           order \in UNION {Orderings(S) :
                               S \in {T \in SUBSET (DOMAIN body) :
                                         T # {} /\ Cardinality(T) <= MaxFaceEdges}}}

\* line 987: length = (selectedEdge.edge.length + transformVector.length)
\* if self.param.fromTop else makeNative(selectedEdge.edge).length
holeLength(fromTop, edgeLength, transformLength) ==
    IF fromTop THEN edgeLength + transformLength ELSE edgeLength

\* lines 937-952: the tests that let an edge through to the sketch
EdgePassesTests(body, face, e) ==
    /\ e.isSelected
    /\ e.isValid
    /\ isEdgeAssociatedWithFace(body, face, e.edge)

\* Lines 932-989 for the edge at pc, getCornerEdgesAtFace having given r
SketchEdgePass(s, r) ==
    LET e == s.edges[s.pc]
        length == holeLength(s.fromTop, e.length, s.transformLength)
    IN  IF s.dbType = Mortise /\ r.status # "ok"
        THEN \* line 961 is in no try block: the exception leaves the routine
             [s EXCEPT !.status = "aborted"]
        ELSE [s EXCEPT !.holeList = Append(@, [length |-> length, point |-> s.pc]),
                       !.pc = @ + 1]

\* line 991: depthList = set(map(lambda x: x[0], holeList))
depthList(holeList) == {holeList[k].length : k \in DOMAIN holeList}

\* lines 997-998: for hole in filter(lambda h: h[0] == depth, holeList):
\* pointCollection.add(hole[1])
pointCollection(holeList, depth) ==
    {holeList[k].point : k \in {j \in DOMAIN holeList : holeList[j].length = depth}}

(***************************************************************************)
(* SpecSketch                                                              *)
(***************************************************************************)
InitSketch ==
    /\ pBody = Idle /\ pSel = 0 /\ param = Idle /\ pOut = Idle
    /\ tFaces = <<>> /\ tSel = 0 /\ tOut = Idle /\ tMove = Idle
    /\ aEdge = Idle /\ aOut = Idle /\ batch = Idle /\ picks = Idle /\ run = Idle
    /\ cBody \in SketchBodies
    /\ cFace \in {f \in SUBSET (DOMAIN cBody) : ClosedFace(cBody, f)}
    /\ cEdge = 0
    /\ cResult = Idle
    /\ \E edges \in SketchEdgeLists(cBody), dbType \in {Normal, Mortise},
          fromTop \in BOOLEAN :
          sk = [status |-> "edges", dbType |-> dbType, fromTop |-> fromTop,
                transformLength |-> IF fromTop THEN MaxDepth ELSE 0,
                edges |-> edges, pc |-> 1, holeList |-> <<>>,
                depthList |-> {}, holes |-> <<>>]

\* lines 932-989: the loop body for the next selected edge
SketchSelectedEdge ==
    /\ sk.status = "edges"
    /\ sk.pc <= Len(sk.edges)
    /\ IF ~EdgePassesTests(cBody, cFace, sk.edges[sk.pc])
       THEN sk' = [sk EXCEPT !.pc = @ + 1]
       ELSE \E r \in GetCornerEdgesAtFace(cBody, cFace, sk.edges[sk.pc].edge) :
               sk' = SketchEdgePass(sk, r)
    /\ UNCHANGED <<cBody, cFace, cEdge, cResult, pBody, pSel, param, pOut,
                   tFaces, tSel, tOut, tMove, aEdge, aOut, batch, picks, run>>

\* line 991: after the edge loop the set of depths is built
CollectDepths ==
    /\ sk.status = "edges"
    /\ sk.pc > Len(sk.edges)
    /\ sk' = [sk EXCEPT !.status = "holes", !.depthList = depthList(sk.holeList)]
    /\ UNCHANGED <<cBody, cFace, cEdge, cResult, pBody, pSel, param, pOut,
                   tFaces, tSel, tOut, tMove, aEdge, aOut, batch, picks, run>>

\* lines 993-1014: one iteration of 'for depth in depthList', in the
\* unspecified order of a set
AddHoleAtDepth ==
    /\ sk.status = "holes"
    /\ \E depth \in sk.depthList :
          sk' = [sk EXCEPT !.depthList = @ \ {depth},
                           !.holes = Append(@, [depth |-> depth,
                                                points |-> pointCollection(sk.holeList, depth)])]
    /\ UNCHANGED <<cBody, cFace, cEdge, cResult, pBody, pSel, param, pOut,
                   tFaces, tSel, tOut, tMove, aEdge, aOut, batch, picks, run>>

\* the loop over depthList is exhausted
FinishSketch ==
    /\ sk.status = "holes"
    /\ sk.depthList = {}
    /\ sk' = [sk EXCEPT !.status = "done"]
    /\ UNCHANGED <<cBody, cFace, cEdge, cResult, pBody, pSel, param, pOut,
                   tFaces, tSel, tOut, tMove, aEdge, aOut, batch, picks, run>>

NextSketch == SketchSelectedEdge \/ CollectDepths \/ AddHoleAtDepth \/ FinishSketch

SpecSketch == InitSketch /\ [][NextSketch]_vars

(***************************************************************************)
(* Claims about getCornerEdgesAtFace (checked under SpecCorner)            *)
(***************************************************************************)
CornerCalled == cEdge # 0

\* The set the resolver is specified to look at: the face's boundary edges at
\* the shared vertex, the dogbone edge itself removed.
RemainingCornerEdges ==
    (VertexEdges(cBody, CornerStartVertex(cBody, cFace, cEdge)) \cap cFace) \ {cEdge}

\* C1: whenever getCornerEdgesAtFace returns normally it returns exactly two
\* edges, distinct from each other and from the dogbone edge, both boundary
\* edges of the face and both incident to the shared vertex.
C1_TwoEdgesOtherThanDogbone ==
    (CornerCalled /\ cResult.status = "ok") =>
        /\ Len(cResult.edges) = 2
        /\ cResult.edges[1] # cResult.edges[2]
        /\ \A i \in 1 .. 2 :
              /\ cResult.edges[i] # cEdge
              /\ cResult.edges[i] \in cFace
              /\ cResult.edges[i] \in
                    VertexEdges(cBody, CornerStartVertex(cBody, cFace, cEdge))

\* C2: a pair is returned only when the face's edges at the shared vertex,
\* with the dogbone edge removed, are exactly two; any other cardinality
\* fails with an error.
C2_PairOnlyWhenTwoRemain ==
    (CornerCalled /\ Cardinality(RemainingCornerEdges) # 2) =>
        cResult.status = "NameError"

EdgeTouchesFace(body, face, edge) ==
    \/ startVertex(body, edge) \in FaceVertices(body, face)
    \/ endVertex(body, edge) \in FaceVertices(body, face)

\* C3: an edge with no end point among the face's vertices makes
\* getCornerEdgesAtFace fail with an error instead of returning two edges.
C3_EdgeOffFaceFails ==
    (CornerCalled /\ ~EdgeTouchesFace(cBody, cFace, cEdge)) =>
        cResult.status = "NameError"

\* C3 witness: a call with an edge that does not touch the face has failed.
C3_Witness ==
    /\ CornerCalled
    /\ ~EdgeTouchesFace(cBody, cFace, cEdge)
    /\ cResult.status = "NameError"

(***************************************************************************)
(* Claims about the placement (checked under SpecPlace)                    *)
(***************************************************************************)
Done == pOut.status = "done"

Parametric == Done /\ pOut.path = "parametric"

\* The corner: the end of the selected edge on the selected face
CornerPoint ==
    VertexPoint(pBody, getVertexAtFace(PocketEdges(pBody), TopFace(pBody), pSel))

OtherEndPoint(e) ==
    IF EdgeStartPoint(pBody, e) = CornerPoint
    THEN EdgeEndPoint(pBody, e)
    ELSE EdgeStartPoint(pBody, e)

\* toolRadius and effectiveDistance as the specification defines them
ToolRadius == Rat(param.toolDia + param.toolDiaOffset, 2)

EffectiveDistance ==
    IF param.dbType = Minimal
    THEN Rat((param.toolDia + param.toolDiaOffset) * (100 + param.minimalPercent), 200)
    ELSE ToolRadius

\* The edge the hole was aligned with, and the other one
AlignedEdge(o) == IF o.chosen = 1 THEN o.edge1 ELSE o.edge2

OtherEdge(o) == IF o.chosen = 1 THEN o.edge2 ELSE o.edge1

ClearanceOf(o, e) == IF e = o.edge1 THEN o.edge1Offset ELSE o.edge2Offset

LongerEdge(o) ==
    IF LongerThan(EdgeLength(pBody, o.edge1), EdgeLength(pBody, o.edge2))
    THEN o.edge1 ELSE o.edge2

ShorterEdge(o) == IF LongerEdge(o) = o.edge1 THEN o.edge2 ELSE o.edge1

\* C4: Mortise style, corner edges of different lengths: Long aligns the hole
\* with the longer edge, Short with the shorter; the aligned edge gets
\* clearance 0 and the other the full offset; switching Long/Short on the
\* same corner switches the aligned edge.
C4_MortiseSide ==
    (Done /\ param.dbType = Mortise
          /\ EdgeLength(pBody, pOut.edge1) # EdgeLength(pBody, pOut.edge2)) =>
        /\ AlignedEdge(pOut) = IF param.longSide THEN LongerEdge(pOut) ELSE ShorterEdge(pOut)
        /\ Parametric =>
              /\ ClearanceOf(pOut, AlignedEdge(pOut)) = SurdZero
              /\ ClearanceOf(pOut, OtherEdge(pOut)) = SurdOfRat(ToolRadius)
        /\ \A o \in ExecuteOutcomes(pBody, pSel, [param EXCEPT !.longSide = ~param.longSide]) :
              /\ o.status = "done"
              /\ AlignedEdge(o) # AlignedEdge(pOut)
              /\ Parametric => ClearanceOf(o, AlignedEdge(pOut)) = SurdOfRat(ToolRadius)

\* C4 witness: a parametric Mortise hole on the long side of a corner with
\* edges of different lengths: the longer edge has clearance 0, the other not.
C4_Witness ==
    /\ Parametric /\ param.dbType = Mortise /\ param.longSide
    /\ LongerThan(EdgeLength(pBody, pOut.edge2), EdgeLength(pBody, pOut.edge1))
    /\ pOut.edge2Offset = SurdZero
    /\ pOut.edge1Offset.sgn = 1

\* C5: the clearances handed to hole creation are never negative; they are
\* equal in the Normal and Minimal styles; in Mortise style exactly one is
\* zero and the other is the computed offset.
C5_Clearances ==
    Parametric =>
        /\ pOut.edge1Offset.sgn >= 0
        /\ pOut.edge2Offset.sgn >= 0
        /\ param.dbType # Mortise => pOut.edge1Offset = pOut.edge2Offset
        /\ param.dbType = Mortise =>
              \/ pOut.edge1Offset = SurdZero /\ pOut.edge2Offset # SurdZero
                                            /\ pOut.edge2Offset = pOut.offset
              \/ pOut.edge2Offset = SurdZero /\ pOut.edge1Offset # SurdZero
                                            /\ pOut.edge1Offset = pOut.offset

\* centre - corner
Displacement(pt) ==
    IF pt.off = ZeroVec THEN vectorTo(CornerPoint, pt.p) ELSE pt.off

\* normalize(normal(faceA) + normal(faceB)) scaled to the effective distance
ScaledBisector ==
    scaleBy(normalize(VecAdd(EdgeFaceNormals(pBody, pSel)[1], EdgeFaceNormals(pBody, pSel)[2])),
            SurdOfRat(EffectiveDistance))

\* C6: Normal and Minimal styles, either routine: the hole centre is the
\* corner vertex moved along the normalised sum of the two face normals by
\* the effective distance, so it lies exactly that far from the corner.
C6_CentreOnBisector ==
    (Done /\ param.dbType # Mortise /\ EffectiveDistance.n > 0) =>
        /\ pOut.centrePoint = translateBy(PointAt(CornerPoint), ScaledBisector)
        /\ VecLength(Displacement(pOut.centrePoint)) = SurdOfRat(EffectiveDistance)

\* The two faces of the selected edge are at right angles
RightAngleCorner ==
    Dot(EdgeFaceNormals(pBody, pSel)[1].d, EdgeFaceNormals(pBody, pSel)[2].d) = 0

\* Distance of a point from the line of a corner edge (the line passes
\* through the corner)
DistanceFromEdge(pt, e) ==
    LET w == Displacement(pt)
        u == IntSub(OtherEndPoint(e), CornerPoint)
        x == Dot(w.d, w.d) * Dot(u, u) - Dot(w.d, u) * Dot(w.d, u)
    IN  SurdMul(w.c, Surd(Sign(x), x, Dot(u, u)))

\* C7: right-angle corner, Normal style: the centre handed to
\* setPositionByPlaneAndOffsets lies at the two edge offsets,
\* effectiveDistance / sqrt(2), from edge1 and from edge2.
C7_CentreAtEdgeOffsets ==
    (Parametric /\ param.dbType = Normal /\ RightAngleCorner /\ EffectiveDistance.n > 0) =>
        /\ pOut.centrePoint.p = CornerPoint \/ pOut.centrePoint.off = ZeroVec
        /\ DistanceFromEdge(pOut.centrePoint, pOut.edge1)
              = SurdDiv(SurdOfRat(EffectiveDistance), Sqrt2)
        /\ DistanceFromEdge(pOut.centrePoint, pOut.edge2)
              = SurdDiv(SurdOfRat(EffectiveDistance), Sqrt2)

\* C8: Minimal style with minimalPercent = 0 gives the centre point and the
\* clearances of Normal style for the same corner and tool, in both routines.
C8_MinimalZeroIsNormal ==
    (Done /\ param.dbType = Minimal /\ param.minimalPercent = 0) =>
        \A pct \in MinimalPercents :
            \A o \in ExecuteOutcomes(pBody, pSel,
                         [param EXCEPT !.dbType = Normal, !.minimalPercent = pct]) :
                /\ o.status = "done"
                /\ o.centrePoint = pOut.centrePoint
                /\ o.offset = pOut.offset
                /\ Parametric => /\ o.edge1Offset = pOut.edge1Offset
                                 /\ o.edge2Offset = pOut.edge2Offset

\* C8 witness: a static Minimal hole with minimalPercent = 0 and a positive
\* radius, placed off the corner.
C8_Witness ==
    /\ Done /\ pOut.path = "static"
    /\ param.dbType = Minimal /\ param.minimalPercent = 0
    /\ pOut.offset.sgn = 1
    /\ pOut.centrePoint # PointAt(CornerPoint)

\* C9: for a corner point at one end of the edge, correctedEdgeVector is the
\* vector from the corner to the other end, whichever way round the edge
\* stores its start and end vertices.
C9_CorrectedEdgeVector ==
    (Done /\ param.dbType = Mortise) =>
        /\ pOut.direction0 = vectorTo(CornerPoint, OtherEndPoint(pOut.edge1))
        /\ pOut.direction1 = vectorTo(CornerPoint, OtherEndPoint(pOut.edge2))
        /\ correctedEdgeVector(EdgeEndPoint(pBody, pOut.edge1),
               EdgeStartPoint(pBody, pOut.edge1), CornerPoint) = pOut.direction0
        /\ correctedEdgeVector(EdgeEndPoint(pBody, pOut.edge2),
               EdgeStartPoint(pBody, pOut.edge2), CornerPoint) = pOut.direction1

\* C9 witness: a Mortise hole at a corner one of whose edges stores the
\* corner as its end vertex and the other as its start vertex.
C9_Witness ==
    /\ Done /\ param.dbType = Mortise
    /\ EdgeEndPoint(pBody, pOut.edge1) = CornerPoint
    /\ EdgeStartPoint(pBody, pOut.edge2) = CornerPoint
    /\ pOut.direction0 = vectorTo(CornerPoint, EdgeStartPoint(pBody, pOut.edge1))

(***************************************************************************)
(* Claims about getTopFace (checked under SpecTop)                         *)
(***************************************************************************)
TopCalled == tSel # 0

\* The faces the top face is to be chosen among: planar, normal parallel to
\* the reference normal
PlanarParallelFaces ==
    {i \in DOMAIN tFaces : /\ tFaces[i].planar
                           /\ isParallelTo(tFaces[tSel].normal, tFaces[i].normal)}

SignedDistance(i) ==
    Dot(IntSub(tFaces[i].vertex0, tFaces[tSel].vertex0), tFaces[tSel].normal)

\* C10: getTopFace returns a face of the body that is planar, with a normal
\* parallel to the reference normal and with the greatest signed distance
\* along that normal among the planar parallel faces; never a non-planar
\* face, never a face with a smaller signed distance.
C10_TopIsFurthestPlanarParallel ==
    TopCalled =>
        /\ tOut.face \in DOMAIN tFaces
        /\ tFaces[tOut.face].planar
        /\ isParallelTo(tFaces[tSel].normal, tFaces[tOut.face].normal)
        /\ \A i \in PlanarParallelFaces : SignedDistance(i) <= SignedDistance(tOut.face)

\* The bottom and the top of a prism: the faces whose normals point down and up
PrismBottom == CHOOSE i \in DOMAIN tFaces : tFaces[i].normal = <<0, 0, -1>>

PrismTop == CHOOSE i \in DOMAIN tFaces : tFaces[i].normal = <<0, 0, 1>>

PrismHeight == tFaces[PrismTop].vertex0[3] - tFaces[PrismBottom].vertex0[3]

\* C11: on a rectangular prism, getTopFace(bottom) returns the top face, not
\* the bottom, and getTranslateVectorBetweenFaces(bottom, top) lies along the
\* common normal and is as long as the prism is high.
C11_PrismBottomToTop ==
    (tFaces \in PrismBodies /\ tSel = PrismBottom) =>
        /\ tOut.face = PrismTop
        /\ tMove # Idle =>
              /\ tMove.to = PrismTop
              /\ tMove.result.status = "ok"
              /\ tMove.result.vector = <<0, 0, PrismHeight>>

\* The faces that pass getTopFace's parallel test
ParallelFaces ==
    {i \in DOMAIN tFaces : isParallelTo(tFaces[tSel].normal, tFaces[i].normal)}

\* Those of them at the greatest signed distance
FurthestParallelFaces ==
    {i \in ParallelFaces : \A j \in ParallelFaces : SignedDistance(j) <= SignedDistance(i)}

\* C12: when several parallel faces share the greatest signed distance,
\* getTopFace returns the one that comes first in the order of body.faces.
C12_TieFirstFound ==
    TopCalled =>
        /\ tOut.face \in FurthestParallelFaces
        /\ \A i \in FurthestParallelFaces : tOut.face <= i

(***************************************************************************)
(* Claims about getTranslateVectorBetweenFaces (checked under SpecMove)    *)
(***************************************************************************)
Moved == tMove # Idle

FromFace == tFaces[tMove.from]

ToFace == tFaces[tMove.to]

C14_NonParallelFails ==
    Moved => (tMove.result.status = "ok" <=> isParallelTo(FromFace.normal, ToFace.normal))

(***************************************************************************)
(* Claims about getAngleBetweenFaces (checked under SpecAngle)             *)
(***************************************************************************)
AngleCalled == aOut # Idle

TwoPlanarFaces(edge) ==
    Len(edge.faces) = 2 /\ edge.faces[1].planar /\ edge.faces[2].planar

\* The direction in which the first face's co-edge runs along the edge
FirstCoEdgeDirection ==
    LET coEdge == CHOOSE c \in {aEdge.coEdges[i] : i \in DOMAIN aEdge.coEdges} :
                      c.face = aEdge.faces[1].id
    IN  IF coEdge.isOpposedToEdge
        THEN IntSub(aEdge.startPoint, aEdge.endPoint)
        ELSE IntSub(aEdge.endPoint, aEdge.startPoint)

\* C15: for an edge with two planar faces the result is pi + normalAngle when
\* the first face's co-edge direction makes more than a right angle with
\* normal2 x normal1, and pi - normalAngle otherwise, normalAngle being the
\* angle between the two normals; the result lies in [0, 2 pi].
C15_AngleFromNormals ==
    (AngleCalled /\ TwoPlanarFaces(aEdge)) =>
        LET normal1 == aEdge.faces[1].normal
            normal2 == aEdge.faces[2].normal
            normalAngle == AngleTo(normal1, normal2)
            opposed == Dot(FirstCoEdgeDirection, Cross(normal2, normal1)) < 0
        IN  /\ aOut.status = "ok"
            /\ aOut.angle = IF opposed THEN Pi + normalAngle ELSE Pi - normalAngle
            /\ 0 <= aOut.angle /\ aOut.angle <= 2 * Pi

\* C15 witness: a result beyond pi that is not a right-angle case, for an
\* edge whose first face's co-edge opposes the stored edge direction.
C15_Witness ==
    /\ AngleCalled /\ TwoPlanarFaces(aEdge)
    /\ aOut.angle = Pi + 45
    /\ \E i \in DOMAIN aEdge.coEdges :
          aEdge.coEdges[i].face = aEdge.faces[1].id /\ aEdge.coEdges[i].isOpposedToEdge

\* C16 as stated: 90 degrees for the outer (convex) edge of a cube and 270
\* degrees for the concave edge of a right-angle notch.
C16_CubeEdgeRightNotchReflex ==
    (AngleCalled /\ TwoPlanarFaces(aEdge)) =>
        /\ aEdge.interior = Pi \div 2 => aOut.angle = Pi \div 2
        /\ aEdge.interior = 3 * (Pi \div 2) => aOut.angle = 3 * (Pi \div 2)

\* C16 amended: with co-edges running counter-clockwise seen from outside,
\* the result is 270 degrees for the outer (convex) edge of a cube and 90
\* degrees for the concave edge of a right-angle notch, whichever face is
\* enumerated first and whichever way round the edge is stored.
C16_CubeEdgeReflexNotchRight ==
    (AngleCalled /\ TwoPlanarFaces(aEdge)) =>
        /\ aEdge.interior = Pi \div 2 => aOut.angle = 3 * (Pi \div 2)
        /\ aEdge.interior = 3 * (Pi \div 2) => aOut.angle = Pi \div 2
        /\ aEdge.interior \in {Pi \div 2, 3 * (Pi \div 2)} =>
              \A e \in Edges :
                  (TwoPlanarFaces(e) /\ e.interior = aEdge.interior) =>
                      \A o \in getAngleBetweenFaces(e) : o.angle = aOut.angle

\* C16 witness: the outer edge of a cube, stored downwards, co-edges listed
\* second face first, gives 270 degrees.
C16_Witness ==
    /\ AngleCalled /\ TwoPlanarFaces(aEdge)
    /\ aEdge.interior = Pi \div 2
    /\ aEdge.startPoint = <<0, 0, 1>>
    /\ aEdge.coEdges[1].face = aEdge.faces[2].id
    /\ aOut.angle = 3 * (Pi \div 2)

\* C17: getAngleBetweenFaces never raises, whatever the edge, and returns 0
\* exactly when one of the two faces is missing or is not planar.
C17_NeverRaises ==
    AngleCalled =>
        /\ aOut.status = "ok"
        /\ aOut.angle = 0 <=> ~TwoPlanarFaces(aEdge)

(***************************************************************************)
(* Claims about input validation (checked under SpecPlace)                 *)
(***************************************************************************)
\* C20: whenever onExecute has gone ahead, that is for every combination of
\* inputs that passes onValidate, the radius (toolDia + toolDiaOffset) / 2
\* and the centre distance radius * (1 + minimalPercent/100) the two routines
\* use are strictly positive.
C20_PositiveDistance ==
    pOut # Idle =>
        /\ Radius(param).n > 0
        /\ CentreDistance(param).n > 0

(***************************************************************************)
(* Claims about the edge loops (checked under SpecBatch)                   *)
(***************************************************************************)
\* The routine calls getCornerEdgesAtFace for the edge and the call fails
ResolutionFails(edge) ==
    /\ batch.parametric \/ batch.dbType = Mortise
    /\ \A r \in GetCornerEdgesAtFace(cBody, cFace, edge) : r.status # "ok"

\* The sketch points and holes made so far
CreatedSoFar ==
    {batch.holes[i] : i \in DOMAIN batch.holes} \cup {batch.points[i] : i \in DOMAIN batch.points}

\* The two corner edges getCornerEdgesAtFace finds for an edge
CornerEdgesOf(edge) ==
    UNION {{r.edges[1], r.edges[2]} : r \in GetCornerEdgesAtFace(cBody, cFace, edge)}

\* C18: an edge whose corner resolution fails is skipped: nothing is created
\* for it and no corner edges left from an earlier edge are used; the routine
\* goes on, so that every other selected edge has its hole when it is done.
C18_FailedEdgeSkipped ==
    batch # Idle =>
        /\ batch.status # "aborted"
        /\ \A h \in CreatedSoFar :
              /\ ~ResolutionFails(h.edge)
              /\ h.edge1 # 0 => {h.edge1, h.edge2} = CornerEdgesOf(h.edge)
        /\ batch.status = "done" =>
              \A i \in DOMAIN batch.edges :
                  ~ResolutionFails(batch.edges[i]) =>
                      \E j \in DOMAIN batch.holes : batch.holes[j].edge = batch.edges[i]

\* C19: when the batch is done, errorCount is the number of edges whose
\* processing failed, the 'Reported errors' summary has been shown exactly
\* when there is such an edge, and no message was shown for a single edge.
C19_ErrorCountAndSummary ==
    (batch # Idle /\ batch.status = "done") =>
        LET failed == {i \in DOMAIN batch.edges : ResolutionFails(batch.edges[i])}
        IN  /\ batch.errorCount = Cardinality(failed)
            /\ batch.summary <=> failed # {}
            /\ batch.messages = 0

(***************************************************************************)
(* Further claims about getTopFace (checked under SpecTop)                 *)
(***************************************************************************)
\* C29: the candidate list of getTopFace is never empty: the reference face
\* is in it at signed distance 0; the call does not fail, the returned face
\* has a signed distance >= 0, and when no parallel face lies further along
\* the reference normal the returned face is at distance 0.
C29_CandidateListNeverEmpty ==
    TopCalled =>
        LET faceList == FaceList(tFaces, tSel, 1)
        IN  /\ faceList # <<>>
            /\ \E k \in DOMAIN faceList : /\ faceList[k].face = tSel
                                          /\ faceList[k].distance = 0
            /\ tOut.status = "ok"
            /\ tOut.distance >= 0
            /\ SignedDistance(tOut.face) >= 0
            /\ (\A i \in ParallelFaces : SignedDistance(i) <= 0) =>
                    SignedDistance(tOut.face) = 0

\* C29 witness: a call for a reference face away from the origin, with a
\* parallel face behind it and none beyond it; the face returned is at
\* distance 0.
C29_Witness ==
    /\ TopCalled
    /\ tFaces[tSel].vertex0 # Origin
    /\ \E i \in ParallelFaces : SignedDistance(i) < 0
    /\ \A i \in ParallelFaces : SignedDistance(i) <= 0
    /\ tOut.distance = 0

(***************************************************************************)
(* Further claims about the placement (checked under SpecPlace)            *)
(***************************************************************************)
\* The outcomes of the other routine for the same corner and parameters
OtherRoutineOutcomes ==
    ExecuteOutcomes(pBody, pSel, [param EXCEPT !.parametric = ~param.parametric])

\* The centre at the effective distance from the corner along the edge the
\* hole is aligned with
CentreAlongAlignedEdge(o) ==
    translateBy(PointAt(CornerPoint),
                scaleBy(normalize(vectorTo(CornerPoint, OtherEndPoint(AlignedEdge(o)))),
                        SurdOfRat(EffectiveDistance)))

\* C27: for the same corner, style, mortise side, radius and percentage the
\* parametric and the static routine move the corner vertex by the same
\* vector; in Mortise style by the effective distance along the aligned
\* edge, away from the corner.
C27_SameCentreBothRoutines ==
    (Done /\ EffectiveDistance.n > 0) =>
        /\ \A o \in OtherRoutineOutcomes :
              (o.status = "done" /\ (param.dbType = Mortise => o.edge1 = pOut.edge1)) =>
                  o.centrePoint = pOut.centrePoint
        /\ param.dbType = Mortise =>
              /\ pOut.centrePoint = CentreAlongAlignedEdge(pOut)
              /\ VecLength(Displacement(pOut.centrePoint)) = SurdOfRat(EffectiveDistance)

EqualCornerEdges(o) == EdgeLength(pBody, o.edge1) = EdgeLength(pBody, o.edge2)

\* C30: Mortise style, corner edges of equal length: Long aligns the hole
\* with the second corner edge and Short with the first, so Long and Short
\* choose different edges of the same pair, and the static and the
\* parametric routine make the same choice.
C30_MortiseTie ==
    (Done /\ param.dbType = Mortise /\ EqualCornerEdges(pOut)) =>
        /\ pOut.chosen = IF param.longSide THEN 2 ELSE 1
        /\ \A o \in ExecuteOutcomes(pBody, pSel, [param EXCEPT !.longSide = ~param.longSide]) :
              /\ o.status = "done"
              /\ o.edge1 = pOut.edge1 => AlignedEdge(o) # AlignedEdge(pOut)
        /\ \A o \in OtherRoutineOutcomes :
              /\ o.status = "done"
              /\ o.edge1 = pOut.edge1 => AlignedEdge(o) = AlignedEdge(pOut)

\* C30 witness: a static Mortise hole on the long side of a corner whose two
\* edges are equally long, aligned with the second edge of the pair.
C30_Witness ==
    /\ Done /\ pOut.path = "static"
    /\ param.dbType = Mortise /\ param.longSide
    /\ EqualCornerEdges(pOut)
    /\ AlignedEdge(pOut) = pOut.edge2

(***************************************************************************)
(* Claims about the selection (checked under SpecSelect)                   *)
(***************************************************************************)
Executed == picks # Idle /\ picks.executed

\* C23: execution takes the faces in the order in which they were selected,
\* also when they were selected alternately on different bodies or
\* occurrences.
C23_SelectionOrder ==
    Executed => picks.processed = picks.input

\* The DbFace objects listed in selectedOccurrences, list after list
RECURSIVE ListedObjects(_)
ListedObjects(g) ==
    IF g > Len(picks.selectedOccurrences) THEN <<>>
    ELSE picks.selectedOccurrences[g].faces \o ListedObjects(g + 1)

\* The DbFace objects of a group whose isSelected is set, in list order
SelectedInGroup(g) ==
    {k \in DOMAIN picks.selectedOccurrences[g].faces :
        picks.objects[picks.selectedOccurrences[g].faces[k]].isSelected}

FaceOfEntry(g, k) == picks.objects[picks.selectedOccurrences[g].faces[k]].face

\* C24: a face marked selectable on a body or occurrence that has a selected
\* face is parallel to the group's primary (first selected) face, in the
\* root branch and in the occurrence branch; so the faces of one
\* selectedOccurrences group are mutually parallel.
C24_SelectableFacesParallel ==
    picks # Idle =>
        /\ (picks.hover # Idle /\ picks.hover.isSelectable) =>
              LET g == GroupIndex(picks, DesignFaces[picks.hover.face].key)
              IN  (g # 0 /\ SelectedInGroup(g) # {}) =>
                      isParallelTo(DesignFaces[FaceOfEntry(g, Min(SelectedInGroup(g)))].normal,
                                   DesignFaces[picks.hover.face].normal)
        /\ \A g \in DOMAIN picks.selectedOccurrences :
              \A j, k \in DOMAIN picks.selectedOccurrences[g].faces :
                  isParallelTo(DesignFaces[FaceOfEntry(g, j)].normal,
                               DesignFaces[FaceOfEntry(g, k)].normal)

\* C25: after any sequence of face add and remove events the faces listed in
\* selectedOccurrences are exactly those held in selectedFaces, each once
\* and under its own key; the keys of selectedFaces are the faces of the
\* selection input; a face taken out is not processed at execution.
C25_OccurrencesMatchSelection ==
    picks # Idle =>
        /\ Range(ListedObjects(1)) = {picks.selectedFaces[f] : f \in SelectedFaceKeys(picks)}
        /\ \A j, k \in DOMAIN ListedObjects(1) : j # k => ListedObjects(1)[j] # ListedObjects(1)[k]
        /\ \A g \in DOMAIN picks.selectedOccurrences :
              \A k \in DOMAIN picks.selectedOccurrences[g].faces :
                  DesignFaces[FaceOfEntry(g, k)].key = picks.selectedOccurrences[g].key
        /\ SelectedFaceKeys(picks) = Range(picks.input)
        /\ Executed => Range(picks.processed) \subseteq Range(picks.input)

(***************************************************************************)
(* Claims about the routines' work list (checked under SpecRun)            *)
(***************************************************************************)
\* C21: no face handle is used for a query, a sketch or a hole while it is
\* invalid: after a change of the model the handle's validity is tested, and
\* an invalid handle re-resolved, before its next use.
C21_NoInvalidHandleUsed ==
    run # Idle => ~run.invalidUse

OnPlaneOf(point, face) == Dot(IntSub(point, face.vertex0), face.normal) = 0

\* C22: with holes from the top face, getTopFace is called once per
\* occurrence group and every centre is moved by the vector between its face
\* and the top face, so that it lies on the plane of the top face; otherwise
\* getTopFace is not called and no centre is moved.
C22_FromTopTranslation ==
    run # Idle =>
        /\ \A g \in DOMAIN run.topCalls :
              /\ run.topCalls[g] <= 1
              /\ ~run.fromTop => run.topCalls[g] = 0
              /\ (run.fromTop /\ run.status = "done"
                     /\ \E i \in DOMAIN run.faces : run.faces[i].group = g) =>
                    run.topCalls[g] = 1
        /\ \A c \in run.centres :
              IF run.fromTop
              THEN OnPlaneOf(c.point, Block(run.h)[c.top])
              ELSE c.point = Block(run.h)[c.face].vertex0

\* C26: when createParametricDogbones has finished, every hole feature it
\* created is unsuppressed, whatever other hole features the component has.
C26_CreatedHolesUnsuppressed ==
    (run # Idle /\ run.parametric /\ run.status = "done") =>
        \A k \in DOMAIN run.holes : run.holes[k].created => ~run.holes[k].isSuppressed

(***************************************************************************)
(* Claims about the sketch points and holes of createStaticDogbones        *)
(* (checked under SpecSketch)                                              *)
(***************************************************************************)
SketchEnded == sk # Idle /\ sk.status \in {"done", "aborted"}

\* The sketch points the edge at position k of selectedEdges contributed
PointsOfEdge(k) == {j \in DOMAIN sk.holeList : sk.holeList[j].point = k}

\* The hole features that include the sketch point of the edge at position k
HolesOfPoint(k) == {h \in DOMAIN sk.holes : k \in sk.holes[h].points}

\* The edges that went through the tests of the loop
ProcessedEdges == {k \in DOMAIN sk.edges : EdgePassesTests(cBody, cFace, sk.edges[k])}

\* C28: when createStaticDogbones has ended for a face, every edge that is
\* selected, valid and associated with the face has contributed exactly one
\* sketch point, a deselected or invalid edge none; every sketch point is in
\* exactly one hole feature, the one of its edge's hole depth; and the
\* number of hole features equals the number of distinct depths of the
\* processed edges.
C28_PointsAndHoles ==
    SketchEnded =>
        /\ \A k \in DOMAIN sk.edges :
              /\ k \in ProcessedEdges => Cardinality(PointsOfEdge(k)) = 1
              /\ (~sk.edges[k].isSelected \/ ~sk.edges[k].isValid) => PointsOfEdge(k) = {}
        /\ \A j \in DOMAIN sk.holeList :
              LET k == sk.holeList[j].point
              IN  /\ Cardinality(HolesOfPoint(k)) = 1
                  /\ \A h \in HolesOfPoint(k) :
                        sk.holes[h].depth =
                            holeLength(sk.fromTop, sk.edges[k].length, sk.transformLength)
        /\ Len(sk.holes) =
              Cardinality({holeLength(sk.fromTop, sk.edges[k].length, sk.transformLength) :
                              k \in ProcessedEdges})


=============================================================================
